---- MODULE Spec2Model ----
(***************************************************************************)
(* A model of src/script.js: the hand-hygiene dashboard that fetches       *)
(* LoginInfo.csv on a timer, parses it and renders the day's statistics.   *)
(*                                                                         *)
(* Text is modelled as the sequence of its UTF-16 code units, so that      *)
(* trim, split, includes, replace, toLowerCase and the date parser are     *)
(* computed unit by unit as the JavaScript computes them.  A code unit is  *)
(* a string: the character itself or, where a TLA+ string cannot hold it   *)
(* (U+0000, the grave accent U+0060, the surrogates, and the code units    *)
(* above U+00FF whose low byte is below 80 hexadecimal), its name, U+ and  *)
(* four capital hexadecimal digits, as in "U+2003".                        *)
(*                                                                         *)
(* A time value (the result of Date.prototype.getTime) is the pair         *)
(* <<days, ms>> standing for the                                           *)
(* number days * 86400000 + ms with 0 <= ms < 86400000; the pair keeps the *)
(* exact millisecond value within the range of TLC's integers.             *)
(***************************************************************************)
EXTENDS Integers, Sequences, FiniteSets, TLC

(***************************************************************************)
(* Bounds of the model.                                                    *)
(***************************************************************************)
\* longest document body (data lines) drawn for processCSV
MaxRows == 2
\* number of fetchData calls (the initial one and the timer's) in a run
MaxCalls == 2
\* largest worker count handed to updateDashboardStats on its own
MaxCount == 120
\* largest TOTAL_WORKERS_ESTIMATE updateDashboardStats is applied under
MaxEstimate == 60

(***************************************************************************)
(* Configuration (src/script.js lines 1-4).  The estimate is the value the *)
(* file ships with; it is to be set to the actual number of workers.       *)
(***************************************************************************)
TOTAL_WORKERS_ESTIMATE == 50

(***************************************************************************)
(* String primitives of JavaScript, on sequences of characters.            *)
(***************************************************************************)
\* the characters String.prototype.trim removes, the WhiteSpace and
\* LineTerminator of ECMAScript: TAB, LF, VT, FF, CR, SP, NBSP, U+1680,
\* U+2000 to U+200A, U+2028, U+2029, U+202F, U+205F, U+3000 and U+FEFF
WhiteSpace ==
    { "\t", "\n", "", "\f", "\r", " ", " ", " ", "U+2000", "U+2001",
      "U+2002", "U+2003", "U+2004", "U+2005", "U+2006", "U+2007", "U+2008",
      "U+2009", "U+200A", "U+2028", "U+2029", "U+202F", "U+205F", "U+3000",
      "﻿" }

RECURSIVE trimStart(_)
trimStart(s) ==
    IF s # <<>> /\ Head(s) \in WhiteSpace THEN trimStart(Tail(s)) ELSE s

RECURSIVE trimEnd(_)
trimEnd(s) ==
    IF s # <<>> /\ s[Len(s)] \in WhiteSpace
    THEN trimEnd(SubSeq(s, 1, Len(s) - 1))
    ELSE s

\* String.prototype.trim
trim(s) == trimEnd(trimStart(s))

\* 1-based position of the first occurrence of character c in s, 0 if none
FirstPos(s, c) ==
    IF \E i \in 1..Len(s) : s[i] = c
    THEN CHOOSE i \in 1..Len(s) : s[i] = c /\ \A j \in 1..(i - 1) : s[j] # c
    ELSE 0

\* String.prototype.split with a one-character separator
RECURSIVE split(_, _)
split(s, sep) ==
    LET k == FirstPos(s, sep)
    IN  IF k = 0
        THEN <<s>>
        ELSE <<SubSeq(s, 1, k - 1)>> \o split(SubSeq(s, k + 1, Len(s)), sep)

\* String.prototype.replace(' ', 'T'): a string pattern replaces the first
\* occurrence only
replaceFirst(s, c, r) ==
    LET k == FirstPos(s, c)
    IN  IF k = 0 THEN s ELSE [i \in 1..Len(s) |-> IF i = k THEN r ELSE s[i]]

\* the capital letters of ASCII and their small forms
AsciiLower ==
    ("A" :> "a") @@ ("B" :> "b") @@ ("C" :> "c") @@ ("D" :> "d") @@
    ("E" :> "e") @@ ("F" :> "f") @@ ("G" :> "g") @@ ("H" :> "h") @@
    ("I" :> "i") @@ ("J" :> "j") @@ ("K" :> "k") @@ ("L" :> "l") @@
    ("M" :> "m") @@ ("N" :> "n") @@ ("O" :> "o") @@ ("P" :> "p") @@
    ("Q" :> "q") @@ ("R" :> "r") @@ ("S" :> "s") @@ ("T" :> "t") @@
    ("U" :> "u") @@ ("V" :> "v") @@ ("W" :> "w") @@ ("X" :> "x") @@
    ("Y" :> "y") @@ ("Z" :> "z")

\* the lowercase mapping of Unicode 17.0 (UnicodeData.txt and the
\* unconditional rule of SpecialCasing.txt for U+0130): the code points that
\* have one, each the sequence of its one or two code units, and the code
\* units they map to
LowerCase ==
    LET bmp  ==
            { <<"A", "a">>, <<"B", "b">>, <<"C", "c">>, <<"D", "d">>,
              <<"E", "e">>, <<"F", "f">>, <<"G", "g">>, <<"H", "h">>,
              <<"I", "i">>, <<"J", "j">>, <<"K", "k">>, <<"L", "l">>,
              <<"M", "m">>, <<"N", "n">>, <<"O", "o">>, <<"P", "p">>,
              <<"Q", "q">>, <<"R", "r">>, <<"S", "s">>, <<"T", "t">>,
              <<"U", "u">>, <<"V", "v">>, <<"W", "w">>, <<"X", "x">>,
              <<"Y", "y">>, <<"Z", "z">>, <<"À", "à">>, <<"Á", "á">>,
              <<"Â", "â">>, <<"Ã", "ã">>, <<"Ä", "ä">>, <<"Å", "å">>,
              <<"Æ", "æ">>, <<"Ç", "ç">>, <<"È", "è">>, <<"É", "é">>,
              <<"Ê", "ê">>, <<"Ë", "ë">>, <<"Ì", "ì">>, <<"Í", "í">>,
              <<"Î", "î">>, <<"Ï", "ï">>, <<"Ð", "ð">>, <<"Ñ", "ñ">>,
              <<"Ò", "ò">>, <<"Ó", "ó">>, <<"Ô", "ô">>, <<"Õ", "õ">>,
              <<"Ö", "ö">>, <<"Ø", "ø">>, <<"Ù", "ù">>, <<"Ú", "ú">>,
              <<"Û", "û">>, <<"Ü", "ü">>, <<"Ý", "ý">>, <<"Þ", "þ">>,
              <<"U+0100", "U+0101">>, <<"U+0102", "U+0103">>,
              <<"U+0104", "U+0105">>, <<"U+0106", "U+0107">>,
              <<"U+0108", "U+0109">>, <<"U+010A", "U+010B">>,
              <<"U+010C", "U+010D">>, <<"U+010E", "U+010F">>,
              <<"U+0110", "U+0111">>, <<"U+0112", "U+0113">>,
              <<"U+0114", "U+0115">>, <<"U+0116", "U+0117">>,
              <<"U+0118", "U+0119">>, <<"U+011A", "U+011B">>,
              <<"U+011C", "U+011D">>, <<"U+011E", "U+011F">>,
              <<"U+0120", "U+0121">>, <<"U+0122", "U+0123">>,
              <<"U+0124", "U+0125">>, <<"U+0126", "U+0127">>,
              <<"U+0128", "U+0129">>, <<"U+012A", "U+012B">>,
              <<"U+012C", "U+012D">>, <<"U+012E", "U+012F">>,
              <<"U+0132", "U+0133">>, <<"U+0134", "U+0135">>,
              <<"U+0136", "U+0137">>, <<"U+0139", "U+013A">>,
              <<"U+013B", "U+013C">>, <<"U+013D", "U+013E">>,
              <<"U+013F", "U+0140">>, <<"U+0141", "U+0142">>,
              <<"U+0143", "U+0144">>, <<"U+0145", "U+0146">>,
              <<"U+0147", "U+0148">>, <<"U+014A", "U+014B">>,
              <<"U+014C", "U+014D">>, <<"U+014E", "U+014F">>,
              <<"U+0150", "U+0151">>, <<"U+0152", "U+0153">>,
              <<"U+0154", "U+0155">>, <<"U+0156", "U+0157">>,
              <<"U+0158", "U+0159">>, <<"U+015A", "U+015B">>,
              <<"U+015C", "U+015D">>, <<"U+015E", "U+015F">>,
              <<"U+0160", "U+0161">>, <<"U+0162", "U+0163">>,
              <<"U+0164", "U+0165">>, <<"U+0166", "U+0167">>,
              <<"U+0168", "U+0169">>, <<"U+016A", "U+016B">>,
              <<"U+016C", "U+016D">>, <<"U+016E", "U+016F">>,
              <<"U+0170", "U+0171">>, <<"U+0172", "U+0173">>,
              <<"U+0174", "U+0175">>, <<"U+0176", "U+0177">>,
              <<"U+0178", "ÿ">>, <<"U+0179", "U+017A">>,
              <<"U+017B", "U+017C">>, <<"U+017D", "U+017E">>,
              <<"Ɓ", "U+0253">>, <<"Ƃ", "ƃ">>, <<"Ƅ", "ƅ">>,
              <<"Ɔ", "U+0254">>, <<"Ƈ", "ƈ">>, <<"Ɖ", "U+0256">>,
              <<"Ɗ", "U+0257">>, <<"Ƌ", "ƌ">>, <<"Ǝ", "ǝ">>,
              <<"Ə", "U+0259">>, <<"Ɛ", "U+025B">>, <<"Ƒ", "ƒ">>,
              <<"Ɠ", "U+0260">>, <<"Ɣ", "U+0263">>, <<"Ɩ", "U+0269">>,
              <<"Ɨ", "U+0268">>, <<"Ƙ", "ƙ">>, <<"Ɯ", "U+026F">>,
              <<"Ɲ", "U+0272">>, <<"Ɵ", "U+0275">>, <<"Ơ", "ơ">>,
              <<"Ƣ", "ƣ">>, <<"Ƥ", "ƥ">>, <<"Ʀ", "ʀ">>, <<"Ƨ", "ƨ">>,
              <<"Ʃ", "ʃ">>, <<"Ƭ", "ƭ">>, <<"Ʈ", "ʈ">>, <<"Ư", "ư">>,
              <<"Ʊ", "ʊ">>, <<"Ʋ", "ʋ">>, <<"Ƴ", "ƴ">>, <<"Ƶ", "ƶ">>,
              <<"Ʒ", "ʒ">>, <<"Ƹ", "ƹ">>, <<"Ƽ", "ƽ">>, <<"Ǆ", "ǆ">>,
              <<"ǅ", "ǆ">>, <<"Ǉ", "ǉ">>, <<"ǈ", "ǉ">>, <<"Ǌ", "ǌ">>,
              <<"ǋ", "ǌ">>, <<"Ǎ", "ǎ">>, <<"Ǐ", "ǐ">>, <<"Ǒ", "ǒ">>,
              <<"Ǔ", "ǔ">>, <<"Ǖ", "ǖ">>, <<"Ǘ", "ǘ">>, <<"Ǚ", "ǚ">>,
              <<"Ǜ", "ǜ">>, <<"Ǟ", "ǟ">>, <<"Ǡ", "ǡ">>, <<"Ǣ", "ǣ">>,
              <<"Ǥ", "ǥ">>, <<"Ǧ", "ǧ">>, <<"Ǩ", "ǩ">>, <<"Ǫ", "ǫ">>,
              <<"Ǭ", "ǭ">>, <<"Ǯ", "ǯ">>, <<"Ǳ", "ǳ">>, <<"ǲ", "ǳ">>,
              <<"Ǵ", "ǵ">>, <<"Ƕ", "ƕ">>, <<"Ƿ", "ƿ">>, <<"Ǹ", "ǹ">>,
              <<"Ǻ", "ǻ">>, <<"Ǽ", "ǽ">>, <<"Ǿ", "ǿ">>,
              <<"U+0200", "U+0201">>, <<"U+0202", "U+0203">>,
              <<"U+0204", "U+0205">>, <<"U+0206", "U+0207">>,
              <<"U+0208", "U+0209">>, <<"U+020A", "U+020B">>,
              <<"U+020C", "U+020D">>, <<"U+020E", "U+020F">>,
              <<"U+0210", "U+0211">>, <<"U+0212", "U+0213">>,
              <<"U+0214", "U+0215">>, <<"U+0216", "U+0217">>,
              <<"U+0218", "U+0219">>, <<"U+021A", "U+021B">>,
              <<"U+021C", "U+021D">>, <<"U+021E", "U+021F">>,
              <<"U+0220", "ƞ">>, <<"U+0222", "U+0223">>,
              <<"U+0224", "U+0225">>, <<"U+0226", "U+0227">>,
              <<"U+0228", "U+0229">>, <<"U+022A", "U+022B">>,
              <<"U+022C", "U+022D">>, <<"U+022E", "U+022F">>,
              <<"U+0230", "U+0231">>, <<"U+0232", "U+0233">>,
              <<"U+023A", "U+2C65">>, <<"U+023B", "U+023C">>,
              <<"U+023D", "ƚ">>, <<"U+023E", "U+2C66">>,
              <<"U+0241", "U+0242">>, <<"U+0243", "ƀ">>, <<"U+0244", "ʉ">>,
              <<"U+0245", "ʌ">>, <<"U+0246", "U+0247">>,
              <<"U+0248", "U+0249">>, <<"U+024A", "U+024B">>,
              <<"U+024C", "U+024D">>, <<"U+024E", "U+024F">>,
              <<"U+0370", "U+0371">>, <<"U+0372", "U+0373">>,
              <<"U+0376", "U+0377">>, <<"U+037F", "ϳ">>, <<"Ά", "ά">>,
              <<"Έ", "έ">>, <<"Ή", "ή">>, <<"Ί", "ί">>, <<"Ό", "ό">>,
              <<"Ύ", "ύ">>, <<"Ώ", "ώ">>, <<"Α", "α">>, <<"Β", "β">>,
              <<"Γ", "γ">>, <<"Δ", "δ">>, <<"Ε", "ε">>, <<"Ζ", "ζ">>,
              <<"Η", "η">>, <<"Θ", "θ">>, <<"Ι", "ι">>, <<"Κ", "κ">>,
              <<"Λ", "λ">>, <<"Μ", "μ">>, <<"Ν", "ν">>, <<"Ξ", "ξ">>,
              <<"Ο", "ο">>, <<"Π", "π">>, <<"Ρ", "ρ">>, <<"Σ", "σ">>,
              <<"Τ", "τ">>, <<"Υ", "υ">>, <<"Φ", "φ">>, <<"Χ", "χ">>,
              <<"Ψ", "ψ">>, <<"Ω", "ω">>, <<"Ϊ", "ϊ">>, <<"Ϋ", "ϋ">>,
              <<"Ϗ", "ϗ">>, <<"Ϙ", "ϙ">>, <<"Ϛ", "ϛ">>, <<"Ϝ", "ϝ">>,
              <<"Ϟ", "ϟ">>, <<"Ϡ", "ϡ">>, <<"Ϣ", "ϣ">>, <<"Ϥ", "ϥ">>,
              <<"Ϧ", "ϧ">>, <<"Ϩ", "ϩ">>, <<"Ϫ", "ϫ">>, <<"Ϭ", "ϭ">>,
              <<"Ϯ", "ϯ">>, <<"ϴ", "θ">>, <<"Ϸ", "ϸ">>, <<"Ϲ", "ϲ">>,
              <<"Ϻ", "ϻ">>, <<"Ͻ", "U+037B">>, <<"Ͼ", "U+037C">>,
              <<"Ͽ", "U+037D">>, <<"U+0400", "U+0450">>,
              <<"U+0401", "U+0451">>, <<"U+0402", "U+0452">>,
              <<"U+0403", "U+0453">>, <<"U+0404", "U+0454">>,
              <<"U+0405", "U+0455">>, <<"U+0406", "U+0456">>,
              <<"U+0407", "U+0457">>, <<"U+0408", "U+0458">>,
              <<"U+0409", "U+0459">>, <<"U+040A", "U+045A">>,
              <<"U+040B", "U+045B">>, <<"U+040C", "U+045C">>,
              <<"U+040D", "U+045D">>, <<"U+040E", "U+045E">>,
              <<"U+040F", "U+045F">>, <<"U+0410", "U+0430">>,
              <<"U+0411", "U+0431">>, <<"U+0412", "U+0432">>,
              <<"U+0413", "U+0433">>, <<"U+0414", "U+0434">>,
              <<"U+0415", "U+0435">>, <<"U+0416", "U+0436">>,
              <<"U+0417", "U+0437">>, <<"U+0418", "U+0438">>,
              <<"U+0419", "U+0439">>, <<"U+041A", "U+043A">>,
              <<"U+041B", "U+043B">>, <<"U+041C", "U+043C">>,
              <<"U+041D", "U+043D">>, <<"U+041E", "U+043E">>,
              <<"U+041F", "U+043F">>, <<"U+0420", "U+0440">>,
              <<"U+0421", "U+0441">>, <<"U+0422", "U+0442">>,
              <<"U+0423", "U+0443">>, <<"U+0424", "U+0444">>,
              <<"U+0425", "U+0445">>, <<"U+0426", "U+0446">>,
              <<"U+0427", "U+0447">>, <<"U+0428", "U+0448">>,
              <<"U+0429", "U+0449">>, <<"U+042A", "U+044A">>,
              <<"U+042B", "U+044B">>, <<"U+042C", "U+044C">>,
              <<"U+042D", "U+044D">>, <<"U+042E", "U+044E">>,
              <<"U+042F", "U+044F">>, <<"U+0460", "U+0461">>,
              <<"U+0462", "U+0463">>, <<"U+0464", "U+0465">>,
              <<"U+0466", "U+0467">>, <<"U+0468", "U+0469">>,
              <<"U+046A", "U+046B">>, <<"U+046C", "U+046D">>,
              <<"U+046E", "U+046F">>, <<"U+0470", "U+0471">>,
              <<"U+0472", "U+0473">>, <<"U+0474", "U+0475">>,
              <<"U+0476", "U+0477">>, <<"U+0478", "U+0479">>,
              <<"U+047A", "U+047B">>, <<"U+047C", "U+047D">>,
              <<"U+047E", "U+047F">>, <<"Ҁ", "ҁ">>, <<"Ҋ", "ҋ">>,
              <<"Ҍ", "ҍ">>, <<"Ҏ", "ҏ">>, <<"Ґ", "ґ">>, <<"Ғ", "ғ">>,
              <<"Ҕ", "ҕ">>, <<"Җ", "җ">>, <<"Ҙ", "ҙ">>, <<"Қ", "қ">>,
              <<"Ҝ", "ҝ">>, <<"Ҟ", "ҟ">>, <<"Ҡ", "ҡ">>, <<"Ң", "ң">>,
              <<"Ҥ", "ҥ">>, <<"Ҧ", "ҧ">>, <<"Ҩ", "ҩ">>, <<"Ҫ", "ҫ">>,
              <<"Ҭ", "ҭ">>, <<"Ү", "ү">>, <<"Ұ", "ұ">>, <<"Ҳ", "ҳ">>,
              <<"Ҵ", "ҵ">>, <<"Ҷ", "ҷ">>, <<"Ҹ", "ҹ">>, <<"Һ", "һ">>,
              <<"Ҽ", "ҽ">>, <<"Ҿ", "ҿ">>, <<"Ӏ", "ӏ">>, <<"Ӂ", "ӂ">>,
              <<"Ӄ", "ӄ">>, <<"Ӆ", "ӆ">>, <<"Ӈ", "ӈ">>, <<"Ӊ", "ӊ">>,
              <<"Ӌ", "ӌ">>, <<"Ӎ", "ӎ">>, <<"Ӑ", "ӑ">>, <<"Ӓ", "ӓ">>,
              <<"Ӕ", "ӕ">>, <<"Ӗ", "ӗ">>, <<"Ә", "ә">>, <<"Ӛ", "ӛ">>,
              <<"Ӝ", "ӝ">>, <<"Ӟ", "ӟ">>, <<"Ӡ", "ӡ">>, <<"Ӣ", "ӣ">>,
              <<"Ӥ", "ӥ">>, <<"Ӧ", "ӧ">>, <<"Ө", "ө">>, <<"Ӫ", "ӫ">>,
              <<"Ӭ", "ӭ">>, <<"Ӯ", "ӯ">>, <<"Ӱ", "ӱ">>, <<"Ӳ", "ӳ">>,
              <<"Ӵ", "ӵ">>, <<"Ӷ", "ӷ">>, <<"Ӹ", "ӹ">>, <<"Ӻ", "ӻ">>,
              <<"Ӽ", "ӽ">>, <<"Ӿ", "ӿ">>, <<"U+0500", "U+0501">>,
              <<"U+0502", "U+0503">>, <<"U+0504", "U+0505">>,
              <<"U+0506", "U+0507">>, <<"U+0508", "U+0509">>,
              <<"U+050A", "U+050B">>, <<"U+050C", "U+050D">>,
              <<"U+050E", "U+050F">>, <<"U+0510", "U+0511">>,
              <<"U+0512", "U+0513">>, <<"U+0514", "U+0515">>,
              <<"U+0516", "U+0517">>, <<"U+0518", "U+0519">>,
              <<"U+051A", "U+051B">>, <<"U+051C", "U+051D">>,
              <<"U+051E", "U+051F">>, <<"U+0520", "U+0521">>,
              <<"U+0522", "U+0523">>, <<"U+0524", "U+0525">>,
              <<"U+0526", "U+0527">>, <<"U+0528", "U+0529">>,
              <<"U+052A", "U+052B">>, <<"U+052C", "U+052D">>,
              <<"U+052E", "U+052F">>, <<"U+0531", "U+0561">>,
              <<"U+0532", "U+0562">>, <<"U+0533", "U+0563">>,
              <<"U+0534", "U+0564">>, <<"U+0535", "U+0565">>,
              <<"U+0536", "U+0566">>, <<"U+0537", "U+0567">>,
              <<"U+0538", "U+0568">>, <<"U+0539", "U+0569">>,
              <<"U+053A", "U+056A">>, <<"U+053B", "U+056B">>,
              <<"U+053C", "U+056C">>, <<"U+053D", "U+056D">>,
              <<"U+053E", "U+056E">>, <<"U+053F", "U+056F">>,
              <<"U+0540", "U+0570">>, <<"U+0541", "U+0571">>,
              <<"U+0542", "U+0572">>, <<"U+0543", "U+0573">>,
              <<"U+0544", "U+0574">>, <<"U+0545", "U+0575">>,
              <<"U+0546", "U+0576">>, <<"U+0547", "U+0577">>,
              <<"U+0548", "U+0578">>, <<"U+0549", "U+0579">>,
              <<"U+054A", "U+057A">>, <<"U+054B", "U+057B">>,
              <<"U+054C", "U+057C">>, <<"U+054D", "U+057D">>,
              <<"U+054E", "U+057E">>, <<"U+054F", "U+057F">>,
              <<"U+0550", "ր">>, <<"U+0551", "ց">>, <<"U+0552", "ւ">>,
              <<"U+0553", "փ">>, <<"U+0554", "ք">>, <<"U+0555", "օ">>,
              <<"U+0556", "ֆ">>, <<"Ⴀ", "U+2D00">>, <<"Ⴁ", "U+2D01">>,
              <<"Ⴂ", "U+2D02">>, <<"Ⴃ", "U+2D03">>, <<"Ⴄ", "U+2D04">>,
              <<"Ⴅ", "U+2D05">>, <<"Ⴆ", "U+2D06">>, <<"Ⴇ", "U+2D07">>,
              <<"Ⴈ", "U+2D08">>, <<"Ⴉ", "U+2D09">>, <<"Ⴊ", "U+2D0A">>,
              <<"Ⴋ", "U+2D0B">>, <<"Ⴌ", "U+2D0C">>, <<"Ⴍ", "U+2D0D">>,
              <<"Ⴎ", "U+2D0E">>, <<"Ⴏ", "U+2D0F">>, <<"Ⴐ", "U+2D10">>,
              <<"Ⴑ", "U+2D11">>, <<"Ⴒ", "U+2D12">>, <<"Ⴓ", "U+2D13">>,
              <<"Ⴔ", "U+2D14">>, <<"Ⴕ", "U+2D15">>, <<"Ⴖ", "U+2D16">>,
              <<"Ⴗ", "U+2D17">>, <<"Ⴘ", "U+2D18">>, <<"Ⴙ", "U+2D19">>,
              <<"Ⴚ", "U+2D1A">>, <<"Ⴛ", "U+2D1B">>, <<"Ⴜ", "U+2D1C">>,
              <<"Ⴝ", "U+2D1D">>, <<"Ⴞ", "U+2D1E">>, <<"Ⴟ", "U+2D1F">>,
              <<"Ⴠ", "U+2D20">>, <<"Ⴡ", "U+2D21">>, <<"Ⴢ", "U+2D22">>,
              <<"Ⴣ", "U+2D23">>, <<"Ⴤ", "U+2D24">>, <<"Ⴥ", "U+2D25">>,
              <<"Ⴧ", "U+2D27">>, <<"Ⴭ", "U+2D2D">>, <<"Ꭰ", "U+AB70">>,
              <<"Ꭱ", "U+AB71">>, <<"Ꭲ", "U+AB72">>, <<"Ꭳ", "U+AB73">>,
              <<"Ꭴ", "U+AB74">>, <<"Ꭵ", "U+AB75">>, <<"Ꭶ", "U+AB76">>,
              <<"Ꭷ", "U+AB77">>, <<"Ꭸ", "U+AB78">>, <<"Ꭹ", "U+AB79">>,
              <<"Ꭺ", "U+AB7A">>, <<"Ꭻ", "U+AB7B">>, <<"Ꭼ", "U+AB7C">>,
              <<"Ꭽ", "U+AB7D">>, <<"Ꭾ", "U+AB7E">>, <<"Ꭿ", "U+AB7F">>,
              <<"Ꮀ", "ꮀ">>, <<"Ꮁ", "ꮁ">>, <<"Ꮂ", "ꮂ">>, <<"Ꮃ", "ꮃ">>,
              <<"Ꮄ", "ꮄ">>, <<"Ꮅ", "ꮅ">>, <<"Ꮆ", "ꮆ">>, <<"Ꮇ", "ꮇ">>,
              <<"Ꮈ", "ꮈ">>, <<"Ꮉ", "ꮉ">>, <<"Ꮊ", "ꮊ">>, <<"Ꮋ", "ꮋ">>,
              <<"Ꮌ", "ꮌ">>, <<"Ꮍ", "ꮍ">>, <<"Ꮎ", "ꮎ">>, <<"Ꮏ", "ꮏ">>,
              <<"Ꮐ", "ꮐ">>, <<"Ꮑ", "ꮑ">>, <<"Ꮒ", "ꮒ">>, <<"Ꮓ", "ꮓ">>,
              <<"Ꮔ", "ꮔ">>, <<"Ꮕ", "ꮕ">>, <<"Ꮖ", "ꮖ">>, <<"Ꮗ", "ꮗ">>,
              <<"Ꮘ", "ꮘ">>, <<"Ꮙ", "ꮙ">>, <<"Ꮚ", "ꮚ">>, <<"Ꮛ", "ꮛ">>,
              <<"Ꮜ", "ꮜ">>, <<"Ꮝ", "ꮝ">>, <<"Ꮞ", "ꮞ">>, <<"Ꮟ", "ꮟ">>,
              <<"Ꮠ", "ꮠ">>, <<"Ꮡ", "ꮡ">>, <<"Ꮢ", "ꮢ">>, <<"Ꮣ", "ꮣ">>,
              <<"Ꮤ", "ꮤ">>, <<"Ꮥ", "ꮥ">>, <<"Ꮦ", "ꮦ">>, <<"Ꮧ", "ꮧ">>,
              <<"Ꮨ", "ꮨ">>, <<"Ꮩ", "ꮩ">>, <<"Ꮪ", "ꮪ">>, <<"Ꮫ", "ꮫ">>,
              <<"Ꮬ", "ꮬ">>, <<"Ꮭ", "ꮭ">>, <<"Ꮮ", "ꮮ">>, <<"Ꮯ", "ꮯ">>,
              <<"Ꮰ", "ꮰ">>, <<"Ꮱ", "ꮱ">>, <<"Ꮲ", "ꮲ">>, <<"Ꮳ", "ꮳ">>,
              <<"Ꮴ", "ꮴ">>, <<"Ꮵ", "ꮵ">>, <<"Ꮶ", "ꮶ">>, <<"Ꮷ", "ꮷ">>,
              <<"Ꮸ", "ꮸ">>, <<"Ꮹ", "ꮹ">>, <<"Ꮺ", "ꮺ">>, <<"Ꮻ", "ꮻ">>,
              <<"Ꮼ", "ꮼ">>, <<"Ꮽ", "ꮽ">>, <<"Ꮾ", "ꮾ">>, <<"Ꮿ", "ꮿ">>,
              <<"Ᏸ", "ᏸ">>, <<"Ᏹ", "ᏹ">>, <<"Ᏺ", "ᏺ">>, <<"Ᏻ", "ᏻ">>,
              <<"Ᏼ", "ᏼ">>, <<"Ᏽ", "ᏽ">>, <<"Ᲊ", "ᲊ">>, <<"Ა", "ა">>,
              <<"Ბ", "ბ">>, <<"Გ", "გ">>, <<"Დ", "დ">>, <<"Ე", "ე">>,
              <<"Ვ", "ვ">>, <<"Ზ", "ზ">>, <<"Თ", "თ">>, <<"Ი", "ი">>,
              <<"Კ", "კ">>, <<"Ლ", "ლ">>, <<"Მ", "მ">>, <<"Ნ", "ნ">>,
              <<"Ო", "ო">>, <<"Პ", "პ">>, <<"Ჟ", "ჟ">>, <<"Რ", "რ">>,
              <<"Ს", "ს">>, <<"Ტ", "ტ">>, <<"Უ", "უ">>, <<"Ფ", "ფ">>,
              <<"Ქ", "ქ">>, <<"Ღ", "ღ">>, <<"Ყ", "ყ">>, <<"Შ", "შ">>,
              <<"Ჩ", "ჩ">>, <<"Ც", "ც">>, <<"Ძ", "ძ">>, <<"Წ", "წ">>,
              <<"Ჭ", "ჭ">>, <<"Ხ", "ხ">>, <<"Ჯ", "ჯ">>, <<"Ჰ", "ჰ">>,
              <<"Ჱ", "ჱ">>, <<"Ჲ", "ჲ">>, <<"Ჳ", "ჳ">>, <<"Ჴ", "ჴ">>,
              <<"Ჵ", "ჵ">>, <<"Ჶ", "ჶ">>, <<"Ჷ", "ჷ">>, <<"Ჸ", "ჸ">>,
              <<"Ჹ", "ჹ">>, <<"Ჺ", "ჺ">>, <<"Ჽ", "ჽ">>, <<"Ჾ", "ჾ">>,
              <<"Ჿ", "ჿ">>, <<"U+1E00", "U+1E01">>, <<"U+1E02", "U+1E03">>,
              <<"U+1E04", "U+1E05">>, <<"U+1E06", "U+1E07">>,
              <<"U+1E08", "U+1E09">>, <<"U+1E0A", "U+1E0B">>,
              <<"U+1E0C", "U+1E0D">>, <<"U+1E0E", "U+1E0F">>,
              <<"U+1E10", "U+1E11">>, <<"U+1E12", "U+1E13">>,
              <<"U+1E14", "U+1E15">>, <<"U+1E16", "U+1E17">>,
              <<"U+1E18", "U+1E19">>, <<"U+1E1A", "U+1E1B">>,
              <<"U+1E1C", "U+1E1D">>, <<"U+1E1E", "U+1E1F">>,
              <<"U+1E20", "U+1E21">>, <<"U+1E22", "U+1E23">>,
              <<"U+1E24", "U+1E25">>, <<"U+1E26", "U+1E27">>,
              <<"U+1E28", "U+1E29">>, <<"U+1E2A", "U+1E2B">>,
              <<"U+1E2C", "U+1E2D">>, <<"U+1E2E", "U+1E2F">>,
              <<"U+1E30", "U+1E31">>, <<"U+1E32", "U+1E33">>,
              <<"U+1E34", "U+1E35">>, <<"U+1E36", "U+1E37">>,
              <<"U+1E38", "U+1E39">>, <<"U+1E3A", "U+1E3B">>,
              <<"U+1E3C", "U+1E3D">>, <<"U+1E3E", "U+1E3F">>,
              <<"U+1E40", "U+1E41">>, <<"U+1E42", "U+1E43">>,
              <<"U+1E44", "U+1E45">>, <<"U+1E46", "U+1E47">>,
              <<"U+1E48", "U+1E49">>, <<"U+1E4A", "U+1E4B">>,
              <<"U+1E4C", "U+1E4D">>, <<"U+1E4E", "U+1E4F">>,
              <<"U+1E50", "U+1E51">>, <<"U+1E52", "U+1E53">>,
              <<"U+1E54", "U+1E55">>, <<"U+1E56", "U+1E57">>,
              <<"U+1E58", "U+1E59">>, <<"U+1E5A", "U+1E5B">>,
              <<"U+1E5C", "U+1E5D">>, <<"U+1E5E", "U+1E5F">>,
              <<"U+1E60", "U+1E61">>, <<"U+1E62", "U+1E63">>,
              <<"U+1E64", "U+1E65">>, <<"U+1E66", "U+1E67">>,
              <<"U+1E68", "U+1E69">>, <<"U+1E6A", "U+1E6B">>,
              <<"U+1E6C", "U+1E6D">>, <<"U+1E6E", "U+1E6F">>,
              <<"U+1E70", "U+1E71">>, <<"U+1E72", "U+1E73">>,
              <<"U+1E74", "U+1E75">>, <<"U+1E76", "U+1E77">>,
              <<"U+1E78", "U+1E79">>, <<"U+1E7A", "U+1E7B">>,
              <<"U+1E7C", "U+1E7D">>, <<"U+1E7E", "U+1E7F">>, <<"Ẁ", "ẁ">>,
              <<"Ẃ", "ẃ">>, <<"Ẅ", "ẅ">>, <<"Ẇ", "ẇ">>, <<"Ẉ", "ẉ">>,
              <<"Ẋ", "ẋ">>, <<"Ẍ", "ẍ">>, <<"Ẏ", "ẏ">>, <<"Ẑ", "ẑ">>,
              <<"Ẓ", "ẓ">>, <<"Ẕ", "ẕ">>, <<"ẞ", "ß">>, <<"Ạ", "ạ">>,
              <<"Ả", "ả">>, <<"Ấ", "ấ">>, <<"Ầ", "ầ">>, <<"Ẩ", "ẩ">>,
              <<"Ẫ", "ẫ">>, <<"Ậ", "ậ">>, <<"Ắ", "ắ">>, <<"Ằ", "ằ">>,
              <<"Ẳ", "ẳ">>, <<"Ẵ", "ẵ">>, <<"Ặ", "ặ">>, <<"Ẹ", "ẹ">>,
              <<"Ẻ", "ẻ">>, <<"Ẽ", "ẽ">>, <<"Ế", "ế">>, <<"Ề", "ề">>,
              <<"Ể", "ể">>, <<"Ễ", "ễ">>, <<"Ệ", "ệ">>, <<"Ỉ", "ỉ">>,
              <<"Ị", "ị">>, <<"Ọ", "ọ">>, <<"Ỏ", "ỏ">>, <<"Ố", "ố">>,
              <<"Ồ", "ồ">>, <<"Ổ", "ổ">>, <<"Ỗ", "ỗ">>, <<"Ộ", "ộ">>,
              <<"Ớ", "ớ">>, <<"Ờ", "ờ">>, <<"Ở", "ở">>, <<"Ỡ", "ỡ">>,
              <<"Ợ", "ợ">>, <<"Ụ", "ụ">>, <<"Ủ", "ủ">>, <<"Ứ", "ứ">>,
              <<"Ừ", "ừ">>, <<"Ử", "ử">>, <<"Ữ", "ữ">>, <<"Ự", "ự">>,
              <<"Ỳ", "ỳ">>, <<"Ỵ", "ỵ">>, <<"Ỷ", "ỷ">>, <<"Ỹ", "ỹ">>,
              <<"Ỻ", "ỻ">>, <<"Ỽ", "ỽ">>, <<"Ỿ", "ỿ">>,
              <<"U+1F08", "U+1F00">>, <<"U+1F09", "U+1F01">>,
              <<"U+1F0A", "U+1F02">>, <<"U+1F0B", "U+1F03">>,
              <<"U+1F0C", "U+1F04">>, <<"U+1F0D", "U+1F05">>,
              <<"U+1F0E", "U+1F06">>, <<"U+1F0F", "U+1F07">>,
              <<"U+1F18", "U+1F10">>, <<"U+1F19", "U+1F11">>,
              <<"U+1F1A", "U+1F12">>, <<"U+1F1B", "U+1F13">>,
              <<"U+1F1C", "U+1F14">>, <<"U+1F1D", "U+1F15">>,
              <<"U+1F28", "U+1F20">>, <<"U+1F29", "U+1F21">>,
              <<"U+1F2A", "U+1F22">>, <<"U+1F2B", "U+1F23">>,
              <<"U+1F2C", "U+1F24">>, <<"U+1F2D", "U+1F25">>,
              <<"U+1F2E", "U+1F26">>, <<"U+1F2F", "U+1F27">>,
              <<"U+1F38", "U+1F30">>, <<"U+1F39", "U+1F31">>,
              <<"U+1F3A", "U+1F32">>, <<"U+1F3B", "U+1F33">>,
              <<"U+1F3C", "U+1F34">>, <<"U+1F3D", "U+1F35">>,
              <<"U+1F3E", "U+1F36">>, <<"U+1F3F", "U+1F37">>,
              <<"U+1F48", "U+1F40">>, <<"U+1F49", "U+1F41">>,
              <<"U+1F4A", "U+1F42">>, <<"U+1F4B", "U+1F43">>,
              <<"U+1F4C", "U+1F44">>, <<"U+1F4D", "U+1F45">>,
              <<"U+1F59", "U+1F51">>, <<"U+1F5B", "U+1F53">>,
              <<"U+1F5D", "U+1F55">>, <<"U+1F5F", "U+1F57">>,
              <<"U+1F68", "U+1F60">>, <<"U+1F69", "U+1F61">>,
              <<"U+1F6A", "U+1F62">>, <<"U+1F6B", "U+1F63">>,
              <<"U+1F6C", "U+1F64">>, <<"U+1F6D", "U+1F65">>,
              <<"U+1F6E", "U+1F66">>, <<"U+1F6F", "U+1F67">>, <<"ᾈ", "ᾀ">>,
              <<"ᾉ", "ᾁ">>, <<"ᾊ", "ᾂ">>, <<"ᾋ", "ᾃ">>, <<"ᾌ", "ᾄ">>,
              <<"ᾍ", "ᾅ">>, <<"ᾎ", "ᾆ">>, <<"ᾏ", "ᾇ">>, <<"ᾘ", "ᾐ">>,
              <<"ᾙ", "ᾑ">>, <<"ᾚ", "ᾒ">>, <<"ᾛ", "ᾓ">>, <<"ᾜ", "ᾔ">>,
              <<"ᾝ", "ᾕ">>, <<"ᾞ", "ᾖ">>, <<"ᾟ", "ᾗ">>, <<"ᾨ", "ᾠ">>,
              <<"ᾩ", "ᾡ">>, <<"ᾪ", "ᾢ">>, <<"ᾫ", "ᾣ">>, <<"ᾬ", "ᾤ">>,
              <<"ᾭ", "ᾥ">>, <<"ᾮ", "ᾦ">>, <<"ᾯ", "ᾧ">>, <<"Ᾰ", "ᾰ">>,
              <<"Ᾱ", "ᾱ">>, <<"Ὰ", "U+1F70">>, <<"Ά", "U+1F71">>,
              <<"ᾼ", "ᾳ">>, <<"Ὲ", "U+1F72">>, <<"Έ", "U+1F73">>,
              <<"Ὴ", "U+1F74">>, <<"Ή", "U+1F75">>, <<"ῌ", "ῃ">>,
              <<"Ῐ", "ῐ">>, <<"Ῑ", "ῑ">>, <<"Ὶ", "U+1F76">>,
              <<"Ί", "U+1F77">>, <<"Ῠ", "ῠ">>, <<"Ῡ", "ῡ">>,
              <<"Ὺ", "U+1F7A">>, <<"Ύ", "U+1F7B">>, <<"Ῥ", "ῥ">>,
              <<"Ὸ", "U+1F78">>, <<"Ό", "U+1F79">>, <<"Ὼ", "U+1F7C">>,
              <<"Ώ", "U+1F7D">>, <<"ῼ", "ῳ">>, <<"U+2126", "ω">>,
              <<"U+212A", "k">>, <<"U+212B", "å">>, <<"U+2132", "U+214E">>,
              <<"U+2160", "U+2170">>, <<"U+2161", "U+2171">>,
              <<"U+2162", "U+2172">>, <<"U+2163", "U+2173">>,
              <<"U+2164", "U+2174">>, <<"U+2165", "U+2175">>,
              <<"U+2166", "U+2176">>, <<"U+2167", "U+2177">>,
              <<"U+2168", "U+2178">>, <<"U+2169", "U+2179">>,
              <<"U+216A", "U+217A">>, <<"U+216B", "U+217B">>,
              <<"U+216C", "U+217C">>, <<"U+216D", "U+217D">>,
              <<"U+216E", "U+217E">>, <<"U+216F", "U+217F">>, <<"Ↄ", "ↄ">>,
              <<"Ⓐ", "ⓐ">>, <<"Ⓑ", "ⓑ">>, <<"Ⓒ", "ⓒ">>, <<"Ⓓ", "ⓓ">>,
              <<"Ⓔ", "ⓔ">>, <<"Ⓕ", "ⓕ">>, <<"Ⓖ", "ⓖ">>, <<"Ⓗ", "ⓗ">>,
              <<"Ⓘ", "ⓘ">>, <<"Ⓙ", "ⓙ">>, <<"Ⓚ", "ⓚ">>, <<"Ⓛ", "ⓛ">>,
              <<"Ⓜ", "ⓜ">>, <<"Ⓝ", "ⓝ">>, <<"Ⓞ", "ⓞ">>, <<"Ⓟ", "ⓟ">>,
              <<"Ⓠ", "ⓠ">>, <<"Ⓡ", "ⓡ">>, <<"Ⓢ", "ⓢ">>, <<"Ⓣ", "ⓣ">>,
              <<"Ⓤ", "ⓤ">>, <<"Ⓥ", "ⓥ">>, <<"Ⓦ", "ⓦ">>, <<"Ⓧ", "ⓧ">>,
              <<"Ⓨ", "ⓨ">>, <<"Ⓩ", "ⓩ">>, <<"U+2C00", "U+2C30">>,
              <<"U+2C01", "U+2C31">>, <<"U+2C02", "U+2C32">>,
              <<"U+2C03", "U+2C33">>, <<"U+2C04", "U+2C34">>,
              <<"U+2C05", "U+2C35">>, <<"U+2C06", "U+2C36">>,
              <<"U+2C07", "U+2C37">>, <<"U+2C08", "U+2C38">>,
              <<"U+2C09", "U+2C39">>, <<"U+2C0A", "U+2C3A">>,
              <<"U+2C0B", "U+2C3B">>, <<"U+2C0C", "U+2C3C">>,
              <<"U+2C0D", "U+2C3D">>, <<"U+2C0E", "U+2C3E">>,
              <<"U+2C0F", "U+2C3F">>, <<"U+2C10", "U+2C40">>,
              <<"U+2C11", "U+2C41">>, <<"U+2C12", "U+2C42">>,
              <<"U+2C13", "U+2C43">>, <<"U+2C14", "U+2C44">>,
              <<"U+2C15", "U+2C45">>, <<"U+2C16", "U+2C46">>,
              <<"U+2C17", "U+2C47">>, <<"U+2C18", "U+2C48">>,
              <<"U+2C19", "U+2C49">>, <<"U+2C1A", "U+2C4A">>,
              <<"U+2C1B", "U+2C4B">>, <<"U+2C1C", "U+2C4C">>,
              <<"U+2C1D", "U+2C4D">>, <<"U+2C1E", "U+2C4E">>,
              <<"U+2C1F", "U+2C4F">>, <<"U+2C20", "U+2C50">>,
              <<"U+2C21", "U+2C51">>, <<"U+2C22", "U+2C52">>,
              <<"U+2C23", "U+2C53">>, <<"U+2C24", "U+2C54">>,
              <<"U+2C25", "U+2C55">>, <<"U+2C26", "U+2C56">>,
              <<"U+2C27", "U+2C57">>, <<"U+2C28", "U+2C58">>,
              <<"U+2C29", "U+2C59">>, <<"U+2C2A", "U+2C5A">>,
              <<"U+2C2B", "U+2C5B">>, <<"U+2C2C", "U+2C5C">>,
              <<"U+2C2D", "U+2C5D">>, <<"U+2C2E", "U+2C5E">>,
              <<"U+2C2F", "U+2C5F">>, <<"U+2C60", "U+2C61">>,
              <<"U+2C62", "U+026B">>, <<"U+2C63", "U+1D7D">>,
              <<"U+2C64", "U+027D">>, <<"U+2C67", "U+2C68">>,
              <<"U+2C69", "U+2C6A">>, <<"U+2C6B", "U+2C6C">>,
              <<"U+2C6D", "U+0251">>, <<"U+2C6E", "U+0271">>,
              <<"U+2C6F", "U+0250">>, <<"U+2C70", "U+0252">>,
              <<"U+2C72", "U+2C73">>, <<"U+2C75", "U+2C76">>,
              <<"U+2C7E", "U+023F">>, <<"U+2C7F", "U+0240">>, <<"Ⲁ", "ⲁ">>,
              <<"Ⲃ", "ⲃ">>, <<"Ⲅ", "ⲅ">>, <<"Ⲇ", "ⲇ">>, <<"Ⲉ", "ⲉ">>,
              <<"Ⲋ", "ⲋ">>, <<"Ⲍ", "ⲍ">>, <<"Ⲏ", "ⲏ">>, <<"Ⲑ", "ⲑ">>,
              <<"Ⲓ", "ⲓ">>, <<"Ⲕ", "ⲕ">>, <<"Ⲗ", "ⲗ">>, <<"Ⲙ", "ⲙ">>,
              <<"Ⲛ", "ⲛ">>, <<"Ⲝ", "ⲝ">>, <<"Ⲟ", "ⲟ">>, <<"Ⲡ", "ⲡ">>,
              <<"Ⲣ", "ⲣ">>, <<"Ⲥ", "ⲥ">>, <<"Ⲧ", "ⲧ">>, <<"Ⲩ", "ⲩ">>,
              <<"Ⲫ", "ⲫ">>, <<"Ⲭ", "ⲭ">>, <<"Ⲯ", "ⲯ">>, <<"Ⲱ", "ⲱ">>,
              <<"Ⲳ", "ⲳ">>, <<"Ⲵ", "ⲵ">>, <<"Ⲷ", "ⲷ">>, <<"Ⲹ", "ⲹ">>,
              <<"Ⲻ", "ⲻ">>, <<"Ⲽ", "ⲽ">>, <<"Ⲿ", "ⲿ">>, <<"Ⳁ", "ⳁ">>,
              <<"Ⳃ", "ⳃ">>, <<"Ⳅ", "ⳅ">>, <<"Ⳇ", "ⳇ">>, <<"Ⳉ", "ⳉ">>,
              <<"Ⳋ", "ⳋ">>, <<"Ⳍ", "ⳍ">>, <<"Ⳏ", "ⳏ">>, <<"Ⳑ", "ⳑ">>,
              <<"Ⳓ", "ⳓ">>, <<"Ⳕ", "ⳕ">>, <<"Ⳗ", "ⳗ">>, <<"Ⳙ", "ⳙ">>,
              <<"Ⳛ", "ⳛ">>, <<"Ⳝ", "ⳝ">>, <<"Ⳟ", "ⳟ">>, <<"Ⳡ", "ⳡ">>,
              <<"Ⳣ", "ⳣ">>, <<"Ⳬ", "ⳬ">>, <<"Ⳮ", "ⳮ">>, <<"Ⳳ", "ⳳ">>,
              <<"U+A640", "U+A641">>, <<"U+A642", "U+A643">>,
              <<"U+A644", "U+A645">>, <<"U+A646", "U+A647">>,
              <<"U+A648", "U+A649">>, <<"U+A64A", "U+A64B">>,
              <<"U+A64C", "U+A64D">>, <<"U+A64E", "U+A64F">>,
              <<"U+A650", "U+A651">>, <<"U+A652", "U+A653">>,
              <<"U+A654", "U+A655">>, <<"U+A656", "U+A657">>,
              <<"U+A658", "U+A659">>, <<"U+A65A", "U+A65B">>,
              <<"U+A65C", "U+A65D">>, <<"U+A65E", "U+A65F">>,
              <<"U+A660", "U+A661">>, <<"U+A662", "U+A663">>,
              <<"U+A664", "U+A665">>, <<"U+A666", "U+A667">>,
              <<"U+A668", "U+A669">>, <<"U+A66A", "U+A66B">>,
              <<"U+A66C", "U+A66D">>, <<"Ꚁ", "ꚁ">>, <<"Ꚃ", "ꚃ">>,
              <<"Ꚅ", "ꚅ">>, <<"Ꚇ", "ꚇ">>, <<"Ꚉ", "ꚉ">>, <<"Ꚋ", "ꚋ">>,
              <<"Ꚍ", "ꚍ">>, <<"Ꚏ", "ꚏ">>, <<"Ꚑ", "ꚑ">>, <<"Ꚓ", "ꚓ">>,
              <<"Ꚕ", "ꚕ">>, <<"Ꚗ", "ꚗ">>, <<"Ꚙ", "ꚙ">>, <<"Ꚛ", "ꚛ">>,
              <<"U+A722", "U+A723">>, <<"U+A724", "U+A725">>,
              <<"U+A726", "U+A727">>, <<"U+A728", "U+A729">>,
              <<"U+A72A", "U+A72B">>, <<"U+A72C", "U+A72D">>,
              <<"U+A72E", "U+A72F">>, <<"U+A732", "U+A733">>,
              <<"U+A734", "U+A735">>, <<"U+A736", "U+A737">>,
              <<"U+A738", "U+A739">>, <<"U+A73A", "U+A73B">>,
              <<"U+A73C", "U+A73D">>, <<"U+A73E", "U+A73F">>,
              <<"U+A740", "U+A741">>, <<"U+A742", "U+A743">>,
              <<"U+A744", "U+A745">>, <<"U+A746", "U+A747">>,
              <<"U+A748", "U+A749">>, <<"U+A74A", "U+A74B">>,
              <<"U+A74C", "U+A74D">>, <<"U+A74E", "U+A74F">>,
              <<"U+A750", "U+A751">>, <<"U+A752", "U+A753">>,
              <<"U+A754", "U+A755">>, <<"U+A756", "U+A757">>,
              <<"U+A758", "U+A759">>, <<"U+A75A", "U+A75B">>,
              <<"U+A75C", "U+A75D">>, <<"U+A75E", "U+A75F">>,
              <<"U+A760", "U+A761">>, <<"U+A762", "U+A763">>,
              <<"U+A764", "U+A765">>, <<"U+A766", "U+A767">>,
              <<"U+A768", "U+A769">>, <<"U+A76A", "U+A76B">>,
              <<"U+A76C", "U+A76D">>, <<"U+A76E", "U+A76F">>,
              <<"U+A779", "U+A77A">>, <<"U+A77B", "U+A77C">>,
              <<"U+A77D", "U+1D79">>, <<"U+A77E", "U+A77F">>, <<"Ꞁ", "ꞁ">>,
              <<"Ꞃ", "ꞃ">>, <<"Ꞅ", "ꞅ">>, <<"Ꞇ", "ꞇ">>, <<"Ꞌ", "ꞌ">>,
              <<"Ɥ", "U+0265">>, <<"Ꞑ", "ꞑ">>, <<"Ꞓ", "ꞓ">>, <<"Ꞗ", "ꞗ">>,
              <<"Ꞙ", "ꞙ">>, <<"Ꞛ", "ꞛ">>, <<"Ꞝ", "ꞝ">>, <<"Ꞟ", "ꞟ">>,
              <<"Ꞡ", "ꞡ">>, <<"Ꞣ", "ꞣ">>, <<"Ꞥ", "ꞥ">>, <<"Ꞧ", "ꞧ">>,
              <<"Ꞩ", "ꞩ">>, <<"Ɦ", "U+0266">>, <<"Ɜ", "U+025C">>,
              <<"Ɡ", "U+0261">>, <<"Ɬ", "U+026C">>, <<"Ɪ", "U+026A">>,
              <<"Ʞ", "ʞ">>, <<"Ʇ", "ʇ">>, <<"Ʝ", "ʝ">>, <<"Ꭓ", "U+AB53">>,
              <<"Ꞵ", "ꞵ">>, <<"Ꞷ", "ꞷ">>, <<"Ꞹ", "ꞹ">>, <<"Ꞻ", "ꞻ">>,
              <<"Ꞽ", "ꞽ">>, <<"Ꞿ", "ꞿ">>, <<"Ꟁ", "ꟁ">>, <<"Ꟃ", "ꟃ">>,
              <<"Ꞔ", "ꞔ">>, <<"Ʂ", "ʂ">>, <<"Ᶎ", "ᶎ">>, <<"Ꟈ", "ꟈ">>,
              <<"Ꟊ", "ꟊ">>, <<"Ɤ", "U+0264">>, <<"Ꟍ", "ꟍ">>, <<"꟎", "꟏">>,
              <<"Ꟑ", "ꟑ">>, <<"꟒", "ꟓ">>, <<"꟔", "ꟕ">>, <<"Ꟗ", "ꟗ">>,
              <<"Ꟙ", "ꟙ">>, <<"Ꟛ", "ꟛ">>, <<"Ƛ", "ƛ">>, <<"Ꟶ", "ꟶ">>,
              <<"U+FF21", "U+FF41">>, <<"U+FF22", "U+FF42">>,
              <<"U+FF23", "U+FF43">>, <<"U+FF24", "U+FF44">>,
              <<"U+FF25", "U+FF45">>, <<"U+FF26", "U+FF46">>,
              <<"U+FF27", "U+FF47">>, <<"U+FF28", "U+FF48">>,
              <<"U+FF29", "U+FF49">>, <<"U+FF2A", "U+FF4A">>,
              <<"U+FF2B", "U+FF4B">>, <<"U+FF2C", "U+FF4C">>,
              <<"U+FF2D", "U+FF4D">>, <<"U+FF2E", "U+FF4E">>,
              <<"U+FF2F", "U+FF4F">>, <<"U+FF30", "U+FF50">>,
              <<"U+FF31", "U+FF51">>, <<"U+FF32", "U+FF52">>,
              <<"U+FF33", "U+FF53">>, <<"U+FF34", "U+FF54">>,
              <<"U+FF35", "U+FF55">>, <<"U+FF36", "U+FF56">>,
              <<"U+FF37", "U+FF57">>, <<"U+FF38", "U+FF58">>,
              <<"U+FF39", "U+FF59">>, <<"U+FF3A", "U+FF5A">> }
        supp ==
            { <<"U+D801", "U+DC00", "U+D801", "U+DC28">>,
              <<"U+D801", "U+DC01", "U+D801", "U+DC29">>,
              <<"U+D801", "U+DC02", "U+D801", "U+DC2A">>,
              <<"U+D801", "U+DC03", "U+D801", "U+DC2B">>,
              <<"U+D801", "U+DC04", "U+D801", "U+DC2C">>,
              <<"U+D801", "U+DC05", "U+D801", "U+DC2D">>,
              <<"U+D801", "U+DC06", "U+D801", "U+DC2E">>,
              <<"U+D801", "U+DC07", "U+D801", "U+DC2F">>,
              <<"U+D801", "U+DC08", "U+D801", "U+DC30">>,
              <<"U+D801", "U+DC09", "U+D801", "U+DC31">>,
              <<"U+D801", "U+DC0A", "U+D801", "U+DC32">>,
              <<"U+D801", "U+DC0B", "U+D801", "U+DC33">>,
              <<"U+D801", "U+DC0C", "U+D801", "U+DC34">>,
              <<"U+D801", "U+DC0D", "U+D801", "U+DC35">>,
              <<"U+D801", "U+DC0E", "U+D801", "U+DC36">>,
              <<"U+D801", "U+DC0F", "U+D801", "U+DC37">>,
              <<"U+D801", "U+DC10", "U+D801", "U+DC38">>,
              <<"U+D801", "U+DC11", "U+D801", "U+DC39">>,
              <<"U+D801", "U+DC12", "U+D801", "U+DC3A">>,
              <<"U+D801", "U+DC13", "U+D801", "U+DC3B">>,
              <<"U+D801", "U+DC14", "U+D801", "U+DC3C">>,
              <<"U+D801", "U+DC15", "U+D801", "U+DC3D">>,
              <<"U+D801", "U+DC16", "U+D801", "U+DC3E">>,
              <<"U+D801", "U+DC17", "U+D801", "U+DC3F">>,
              <<"U+D801", "U+DC18", "U+D801", "U+DC40">>,
              <<"U+D801", "U+DC19", "U+D801", "U+DC41">>,
              <<"U+D801", "U+DC1A", "U+D801", "U+DC42">>,
              <<"U+D801", "U+DC1B", "U+D801", "U+DC43">>,
              <<"U+D801", "U+DC1C", "U+D801", "U+DC44">>,
              <<"U+D801", "U+DC1D", "U+D801", "U+DC45">>,
              <<"U+D801", "U+DC1E", "U+D801", "U+DC46">>,
              <<"U+D801", "U+DC1F", "U+D801", "U+DC47">>,
              <<"U+D801", "U+DC20", "U+D801", "U+DC48">>,
              <<"U+D801", "U+DC21", "U+D801", "U+DC49">>,
              <<"U+D801", "U+DC22", "U+D801", "U+DC4A">>,
              <<"U+D801", "U+DC23", "U+D801", "U+DC4B">>,
              <<"U+D801", "U+DC24", "U+D801", "U+DC4C">>,
              <<"U+D801", "U+DC25", "U+D801", "U+DC4D">>,
              <<"U+D801", "U+DC26", "U+D801", "U+DC4E">>,
              <<"U+D801", "U+DC27", "U+D801", "U+DC4F">>,
              <<"U+D801", "U+DCB0", "U+D801", "U+DCD8">>,
              <<"U+D801", "U+DCB1", "U+D801", "U+DCD9">>,
              <<"U+D801", "U+DCB2", "U+D801", "U+DCDA">>,
              <<"U+D801", "U+DCB3", "U+D801", "U+DCDB">>,
              <<"U+D801", "U+DCB4", "U+D801", "U+DCDC">>,
              <<"U+D801", "U+DCB5", "U+D801", "U+DCDD">>,
              <<"U+D801", "U+DCB6", "U+D801", "U+DCDE">>,
              <<"U+D801", "U+DCB7", "U+D801", "U+DCDF">>,
              <<"U+D801", "U+DCB8", "U+D801", "U+DCE0">>,
              <<"U+D801", "U+DCB9", "U+D801", "U+DCE1">>,
              <<"U+D801", "U+DCBA", "U+D801", "U+DCE2">>,
              <<"U+D801", "U+DCBB", "U+D801", "U+DCE3">>,
              <<"U+D801", "U+DCBC", "U+D801", "U+DCE4">>,
              <<"U+D801", "U+DCBD", "U+D801", "U+DCE5">>,
              <<"U+D801", "U+DCBE", "U+D801", "U+DCE6">>,
              <<"U+D801", "U+DCBF", "U+D801", "U+DCE7">>,
              <<"U+D801", "U+DCC0", "U+D801", "U+DCE8">>,
              <<"U+D801", "U+DCC1", "U+D801", "U+DCE9">>,
              <<"U+D801", "U+DCC2", "U+D801", "U+DCEA">>,
              <<"U+D801", "U+DCC3", "U+D801", "U+DCEB">>,
              <<"U+D801", "U+DCC4", "U+D801", "U+DCEC">>,
              <<"U+D801", "U+DCC5", "U+D801", "U+DCED">>,
              <<"U+D801", "U+DCC6", "U+D801", "U+DCEE">>,
              <<"U+D801", "U+DCC7", "U+D801", "U+DCEF">>,
              <<"U+D801", "U+DCC8", "U+D801", "U+DCF0">>,
              <<"U+D801", "U+DCC9", "U+D801", "U+DCF1">>,
              <<"U+D801", "U+DCCA", "U+D801", "U+DCF2">>,
              <<"U+D801", "U+DCCB", "U+D801", "U+DCF3">>,
              <<"U+D801", "U+DCCC", "U+D801", "U+DCF4">>,
              <<"U+D801", "U+DCCD", "U+D801", "U+DCF5">>,
              <<"U+D801", "U+DCCE", "U+D801", "U+DCF6">>,
              <<"U+D801", "U+DCCF", "U+D801", "U+DCF7">>,
              <<"U+D801", "U+DCD0", "U+D801", "U+DCF8">>,
              <<"U+D801", "U+DCD1", "U+D801", "U+DCF9">>,
              <<"U+D801", "U+DCD2", "U+D801", "U+DCFA">>,
              <<"U+D801", "U+DCD3", "U+D801", "U+DCFB">>,
              <<"U+D801", "U+DD70", "U+D801", "U+DD97">>,
              <<"U+D801", "U+DD71", "U+D801", "U+DD98">>,
              <<"U+D801", "U+DD72", "U+D801", "U+DD99">>,
              <<"U+D801", "U+DD73", "U+D801", "U+DD9A">>,
              <<"U+D801", "U+DD74", "U+D801", "U+DD9B">>,
              <<"U+D801", "U+DD75", "U+D801", "U+DD9C">>,
              <<"U+D801", "U+DD76", "U+D801", "U+DD9D">>,
              <<"U+D801", "U+DD77", "U+D801", "U+DD9E">>,
              <<"U+D801", "U+DD78", "U+D801", "U+DD9F">>,
              <<"U+D801", "U+DD79", "U+D801", "U+DDA0">>,
              <<"U+D801", "U+DD7A", "U+D801", "U+DDA1">>,
              <<"U+D801", "U+DD7C", "U+D801", "U+DDA3">>,
              <<"U+D801", "U+DD7D", "U+D801", "U+DDA4">>,
              <<"U+D801", "U+DD7E", "U+D801", "U+DDA5">>,
              <<"U+D801", "U+DD7F", "U+D801", "U+DDA6">>,
              <<"U+D801", "U+DD80", "U+D801", "U+DDA7">>,
              <<"U+D801", "U+DD81", "U+D801", "U+DDA8">>,
              <<"U+D801", "U+DD82", "U+D801", "U+DDA9">>,
              <<"U+D801", "U+DD83", "U+D801", "U+DDAA">>,
              <<"U+D801", "U+DD84", "U+D801", "U+DDAB">>,
              <<"U+D801", "U+DD85", "U+D801", "U+DDAC">>,
              <<"U+D801", "U+DD86", "U+D801", "U+DDAD">>,
              <<"U+D801", "U+DD87", "U+D801", "U+DDAE">>,
              <<"U+D801", "U+DD88", "U+D801", "U+DDAF">>,
              <<"U+D801", "U+DD89", "U+D801", "U+DDB0">>,
              <<"U+D801", "U+DD8A", "U+D801", "U+DDB1">>,
              <<"U+D801", "U+DD8C", "U+D801", "U+DDB3">>,
              <<"U+D801", "U+DD8D", "U+D801", "U+DDB4">>,
              <<"U+D801", "U+DD8E", "U+D801", "U+DDB5">>,
              <<"U+D801", "U+DD8F", "U+D801", "U+DDB6">>,
              <<"U+D801", "U+DD90", "U+D801", "U+DDB7">>,
              <<"U+D801", "U+DD91", "U+D801", "U+DDB8">>,
              <<"U+D801", "U+DD92", "U+D801", "U+DDB9">>,
              <<"U+D801", "U+DD94", "U+D801", "U+DDBB">>,
              <<"U+D801", "U+DD95", "U+D801", "U+DDBC">>,
              <<"U+D803", "U+DC80", "U+D803", "U+DCC0">>,
              <<"U+D803", "U+DC81", "U+D803", "U+DCC1">>,
              <<"U+D803", "U+DC82", "U+D803", "U+DCC2">>,
              <<"U+D803", "U+DC83", "U+D803", "U+DCC3">>,
              <<"U+D803", "U+DC84", "U+D803", "U+DCC4">>,
              <<"U+D803", "U+DC85", "U+D803", "U+DCC5">>,
              <<"U+D803", "U+DC86", "U+D803", "U+DCC6">>,
              <<"U+D803", "U+DC87", "U+D803", "U+DCC7">>,
              <<"U+D803", "U+DC88", "U+D803", "U+DCC8">>,
              <<"U+D803", "U+DC89", "U+D803", "U+DCC9">>,
              <<"U+D803", "U+DC8A", "U+D803", "U+DCCA">>,
              <<"U+D803", "U+DC8B", "U+D803", "U+DCCB">>,
              <<"U+D803", "U+DC8C", "U+D803", "U+DCCC">>,
              <<"U+D803", "U+DC8D", "U+D803", "U+DCCD">>,
              <<"U+D803", "U+DC8E", "U+D803", "U+DCCE">>,
              <<"U+D803", "U+DC8F", "U+D803", "U+DCCF">>,
              <<"U+D803", "U+DC90", "U+D803", "U+DCD0">>,
              <<"U+D803", "U+DC91", "U+D803", "U+DCD1">>,
              <<"U+D803", "U+DC92", "U+D803", "U+DCD2">>,
              <<"U+D803", "U+DC93", "U+D803", "U+DCD3">>,
              <<"U+D803", "U+DC94", "U+D803", "U+DCD4">>,
              <<"U+D803", "U+DC95", "U+D803", "U+DCD5">>,
              <<"U+D803", "U+DC96", "U+D803", "U+DCD6">>,
              <<"U+D803", "U+DC97", "U+D803", "U+DCD7">>,
              <<"U+D803", "U+DC98", "U+D803", "U+DCD8">>,
              <<"U+D803", "U+DC99", "U+D803", "U+DCD9">>,
              <<"U+D803", "U+DC9A", "U+D803", "U+DCDA">>,
              <<"U+D803", "U+DC9B", "U+D803", "U+DCDB">>,
              <<"U+D803", "U+DC9C", "U+D803", "U+DCDC">>,
              <<"U+D803", "U+DC9D", "U+D803", "U+DCDD">>,
              <<"U+D803", "U+DC9E", "U+D803", "U+DCDE">>,
              <<"U+D803", "U+DC9F", "U+D803", "U+DCDF">>,
              <<"U+D803", "U+DCA0", "U+D803", "U+DCE0">>,
              <<"U+D803", "U+DCA1", "U+D803", "U+DCE1">>,
              <<"U+D803", "U+DCA2", "U+D803", "U+DCE2">>,
              <<"U+D803", "U+DCA3", "U+D803", "U+DCE3">>,
              <<"U+D803", "U+DCA4", "U+D803", "U+DCE4">>,
              <<"U+D803", "U+DCA5", "U+D803", "U+DCE5">>,
              <<"U+D803", "U+DCA6", "U+D803", "U+DCE6">>,
              <<"U+D803", "U+DCA7", "U+D803", "U+DCE7">>,
              <<"U+D803", "U+DCA8", "U+D803", "U+DCE8">>,
              <<"U+D803", "U+DCA9", "U+D803", "U+DCE9">>,
              <<"U+D803", "U+DCAA", "U+D803", "U+DCEA">>,
              <<"U+D803", "U+DCAB", "U+D803", "U+DCEB">>,
              <<"U+D803", "U+DCAC", "U+D803", "U+DCEC">>,
              <<"U+D803", "U+DCAD", "U+D803", "U+DCED">>,
              <<"U+D803", "U+DCAE", "U+D803", "U+DCEE">>,
              <<"U+D803", "U+DCAF", "U+D803", "U+DCEF">>,
              <<"U+D803", "U+DCB0", "U+D803", "U+DCF0">>,
              <<"U+D803", "U+DCB1", "U+D803", "U+DCF1">>,
              <<"U+D803", "U+DCB2", "U+D803", "U+DCF2">>,
              <<"U+D803", "U+DD50", "U+D803", "U+DD70">>,
              <<"U+D803", "U+DD51", "U+D803", "U+DD71">>,
              <<"U+D803", "U+DD52", "U+D803", "U+DD72">>,
              <<"U+D803", "U+DD53", "U+D803", "U+DD73">>,
              <<"U+D803", "U+DD54", "U+D803", "U+DD74">>,
              <<"U+D803", "U+DD55", "U+D803", "U+DD75">>,
              <<"U+D803", "U+DD56", "U+D803", "U+DD76">>,
              <<"U+D803", "U+DD57", "U+D803", "U+DD77">>,
              <<"U+D803", "U+DD58", "U+D803", "U+DD78">>,
              <<"U+D803", "U+DD59", "U+D803", "U+DD79">>,
              <<"U+D803", "U+DD5A", "U+D803", "U+DD7A">>,
              <<"U+D803", "U+DD5B", "U+D803", "U+DD7B">>,
              <<"U+D803", "U+DD5C", "U+D803", "U+DD7C">>,
              <<"U+D803", "U+DD5D", "U+D803", "U+DD7D">>,
              <<"U+D803", "U+DD5E", "U+D803", "U+DD7E">>,
              <<"U+D803", "U+DD5F", "U+D803", "U+DD7F">>,
              <<"U+D803", "U+DD60", "U+D803", "U+DD80">>,
              <<"U+D803", "U+DD61", "U+D803", "U+DD81">>,
              <<"U+D803", "U+DD62", "U+D803", "U+DD82">>,
              <<"U+D803", "U+DD63", "U+D803", "U+DD83">>,
              <<"U+D803", "U+DD64", "U+D803", "U+DD84">>,
              <<"U+D803", "U+DD65", "U+D803", "U+DD85">>,
              <<"U+D806", "U+DCA0", "U+D806", "U+DCC0">>,
              <<"U+D806", "U+DCA1", "U+D806", "U+DCC1">>,
              <<"U+D806", "U+DCA2", "U+D806", "U+DCC2">>,
              <<"U+D806", "U+DCA3", "U+D806", "U+DCC3">>,
              <<"U+D806", "U+DCA4", "U+D806", "U+DCC4">>,
              <<"U+D806", "U+DCA5", "U+D806", "U+DCC5">>,
              <<"U+D806", "U+DCA6", "U+D806", "U+DCC6">>,
              <<"U+D806", "U+DCA7", "U+D806", "U+DCC7">>,
              <<"U+D806", "U+DCA8", "U+D806", "U+DCC8">>,
              <<"U+D806", "U+DCA9", "U+D806", "U+DCC9">>,
              <<"U+D806", "U+DCAA", "U+D806", "U+DCCA">>,
              <<"U+D806", "U+DCAB", "U+D806", "U+DCCB">>,
              <<"U+D806", "U+DCAC", "U+D806", "U+DCCC">>,
              <<"U+D806", "U+DCAD", "U+D806", "U+DCCD">>,
              <<"U+D806", "U+DCAE", "U+D806", "U+DCCE">>,
              <<"U+D806", "U+DCAF", "U+D806", "U+DCCF">>,
              <<"U+D806", "U+DCB0", "U+D806", "U+DCD0">>,
              <<"U+D806", "U+DCB1", "U+D806", "U+DCD1">>,
              <<"U+D806", "U+DCB2", "U+D806", "U+DCD2">>,
              <<"U+D806", "U+DCB3", "U+D806", "U+DCD3">>,
              <<"U+D806", "U+DCB4", "U+D806", "U+DCD4">>,
              <<"U+D806", "U+DCB5", "U+D806", "U+DCD5">>,
              <<"U+D806", "U+DCB6", "U+D806", "U+DCD6">>,
              <<"U+D806", "U+DCB7", "U+D806", "U+DCD7">>,
              <<"U+D806", "U+DCB8", "U+D806", "U+DCD8">>,
              <<"U+D806", "U+DCB9", "U+D806", "U+DCD9">>,
              <<"U+D806", "U+DCBA", "U+D806", "U+DCDA">>,
              <<"U+D806", "U+DCBB", "U+D806", "U+DCDB">>,
              <<"U+D806", "U+DCBC", "U+D806", "U+DCDC">>,
              <<"U+D806", "U+DCBD", "U+D806", "U+DCDD">>,
              <<"U+D806", "U+DCBE", "U+D806", "U+DCDE">>,
              <<"U+D806", "U+DCBF", "U+D806", "U+DCDF">>,
              <<"U+D81B", "U+DE40", "U+D81B", "U+DE60">>,
              <<"U+D81B", "U+DE41", "U+D81B", "U+DE61">>,
              <<"U+D81B", "U+DE42", "U+D81B", "U+DE62">>,
              <<"U+D81B", "U+DE43", "U+D81B", "U+DE63">>,
              <<"U+D81B", "U+DE44", "U+D81B", "U+DE64">>,
              <<"U+D81B", "U+DE45", "U+D81B", "U+DE65">>,
              <<"U+D81B", "U+DE46", "U+D81B", "U+DE66">>,
              <<"U+D81B", "U+DE47", "U+D81B", "U+DE67">>,
              <<"U+D81B", "U+DE48", "U+D81B", "U+DE68">>,
              <<"U+D81B", "U+DE49", "U+D81B", "U+DE69">>,
              <<"U+D81B", "U+DE4A", "U+D81B", "U+DE6A">>,
              <<"U+D81B", "U+DE4B", "U+D81B", "U+DE6B">>,
              <<"U+D81B", "U+DE4C", "U+D81B", "U+DE6C">>,
              <<"U+D81B", "U+DE4D", "U+D81B", "U+DE6D">>,
              <<"U+D81B", "U+DE4E", "U+D81B", "U+DE6E">>,
              <<"U+D81B", "U+DE4F", "U+D81B", "U+DE6F">>,
              <<"U+D81B", "U+DE50", "U+D81B", "U+DE70">>,
              <<"U+D81B", "U+DE51", "U+D81B", "U+DE71">>,
              <<"U+D81B", "U+DE52", "U+D81B", "U+DE72">>,
              <<"U+D81B", "U+DE53", "U+D81B", "U+DE73">>,
              <<"U+D81B", "U+DE54", "U+D81B", "U+DE74">>,
              <<"U+D81B", "U+DE55", "U+D81B", "U+DE75">>,
              <<"U+D81B", "U+DE56", "U+D81B", "U+DE76">>,
              <<"U+D81B", "U+DE57", "U+D81B", "U+DE77">>,
              <<"U+D81B", "U+DE58", "U+D81B", "U+DE78">>,
              <<"U+D81B", "U+DE59", "U+D81B", "U+DE79">>,
              <<"U+D81B", "U+DE5A", "U+D81B", "U+DE7A">>,
              <<"U+D81B", "U+DE5B", "U+D81B", "U+DE7B">>,
              <<"U+D81B", "U+DE5C", "U+D81B", "U+DE7C">>,
              <<"U+D81B", "U+DE5D", "U+D81B", "U+DE7D">>,
              <<"U+D81B", "U+DE5E", "U+D81B", "U+DE7E">>,
              <<"U+D81B", "U+DE5F", "U+D81B", "U+DE7F">>,
              <<"U+D81B", "U+DEA0", "U+D81B", "U+DEBB">>,
              <<"U+D81B", "U+DEA1", "U+D81B", "U+DEBC">>,
              <<"U+D81B", "U+DEA2", "U+D81B", "U+DEBD">>,
              <<"U+D81B", "U+DEA3", "U+D81B", "U+DEBE">>,
              <<"U+D81B", "U+DEA4", "U+D81B", "U+DEBF">>,
              <<"U+D81B", "U+DEA5", "U+D81B", "U+DEC0">>,
              <<"U+D81B", "U+DEA6", "U+D81B", "U+DEC1">>,
              <<"U+D81B", "U+DEA7", "U+D81B", "U+DEC2">>,
              <<"U+D81B", "U+DEA8", "U+D81B", "U+DEC3">>,
              <<"U+D81B", "U+DEA9", "U+D81B", "U+DEC4">>,
              <<"U+D81B", "U+DEAA", "U+D81B", "U+DEC5">>,
              <<"U+D81B", "U+DEAB", "U+D81B", "U+DEC6">>,
              <<"U+D81B", "U+DEAC", "U+D81B", "U+DEC7">>,
              <<"U+D81B", "U+DEAD", "U+D81B", "U+DEC8">>,
              <<"U+D81B", "U+DEAE", "U+D81B", "U+DEC9">>,
              <<"U+D81B", "U+DEAF", "U+D81B", "U+DECA">>,
              <<"U+D81B", "U+DEB0", "U+D81B", "U+DECB">>,
              <<"U+D81B", "U+DEB1", "U+D81B", "U+DECC">>,
              <<"U+D81B", "U+DEB2", "U+D81B", "U+DECD">>,
              <<"U+D81B", "U+DEB3", "U+D81B", "U+DECE">>,
              <<"U+D81B", "U+DEB4", "U+D81B", "U+DECF">>,
              <<"U+D81B", "U+DEB5", "U+D81B", "U+DED0">>,
              <<"U+D81B", "U+DEB6", "U+D81B", "U+DED1">>,
              <<"U+D81B", "U+DEB7", "U+D81B", "U+DED2">>,
              <<"U+D81B", "U+DEB8", "U+D81B", "U+DED3">>,
              <<"U+D83A", "U+DD00", "U+D83A", "U+DD22">>,
              <<"U+D83A", "U+DD01", "U+D83A", "U+DD23">>,
              <<"U+D83A", "U+DD02", "U+D83A", "U+DD24">>,
              <<"U+D83A", "U+DD03", "U+D83A", "U+DD25">>,
              <<"U+D83A", "U+DD04", "U+D83A", "U+DD26">>,
              <<"U+D83A", "U+DD05", "U+D83A", "U+DD27">>,
              <<"U+D83A", "U+DD06", "U+D83A", "U+DD28">>,
              <<"U+D83A", "U+DD07", "U+D83A", "U+DD29">>,
              <<"U+D83A", "U+DD08", "U+D83A", "U+DD2A">>,
              <<"U+D83A", "U+DD09", "U+D83A", "U+DD2B">>,
              <<"U+D83A", "U+DD0A", "U+D83A", "U+DD2C">>,
              <<"U+D83A", "U+DD0B", "U+D83A", "U+DD2D">>,
              <<"U+D83A", "U+DD0C", "U+D83A", "U+DD2E">>,
              <<"U+D83A", "U+DD0D", "U+D83A", "U+DD2F">>,
              <<"U+D83A", "U+DD0E", "U+D83A", "U+DD30">>,
              <<"U+D83A", "U+DD0F", "U+D83A", "U+DD31">>,
              <<"U+D83A", "U+DD10", "U+D83A", "U+DD32">>,
              <<"U+D83A", "U+DD11", "U+D83A", "U+DD33">>,
              <<"U+D83A", "U+DD12", "U+D83A", "U+DD34">>,
              <<"U+D83A", "U+DD13", "U+D83A", "U+DD35">>,
              <<"U+D83A", "U+DD14", "U+D83A", "U+DD36">>,
              <<"U+D83A", "U+DD15", "U+D83A", "U+DD37">>,
              <<"U+D83A", "U+DD16", "U+D83A", "U+DD38">>,
              <<"U+D83A", "U+DD17", "U+D83A", "U+DD39">>,
              <<"U+D83A", "U+DD18", "U+D83A", "U+DD3A">>,
              <<"U+D83A", "U+DD19", "U+D83A", "U+DD3B">>,
              <<"U+D83A", "U+DD1A", "U+D83A", "U+DD3C">>,
              <<"U+D83A", "U+DD1B", "U+D83A", "U+DD3D">>,
              <<"U+D83A", "U+DD1C", "U+D83A", "U+DD3E">>,
              <<"U+D83A", "U+DD1D", "U+D83A", "U+DD3F">>,
              <<"U+D83A", "U+DD1E", "U+D83A", "U+DD40">>,
              <<"U+D83A", "U+DD1F", "U+D83A", "U+DD41">>,
              <<"U+D83A", "U+DD20", "U+D83A", "U+DD42">>,
              <<"U+D83A", "U+DD21", "U+D83A", "U+DD43">> }
    IN  [cp \in {<<p[1]>> : p \in bmp} |->
             <<(CHOOSE p \in bmp : p[1] = cp[1])[2]>>]
            @@ [cp \in {<<p[1], p[2]>> : p \in supp} |->
                   LET q == CHOOSE p \in supp : <<p[1], p[2]>> = cp
                   IN  <<q[3], q[4]>>]
            @@ (<<"U+0130">> :> <<"i", "U+0307">>)

\* the cased letters of the condition Final_Sigma: the code points with the
\* property Cased of Unicode 17.0 (DerivedCoreProperties.txt) that are not
\* Case_Ignorable; one that is both (a modifier letter such as U+02B0) is
\* passed over as case-ignorable before it is asked whether it is cased
Cased ==
    { <<c>> : c \in
        { "A", "B", "C", "D", "E", "F", "G", "H", "I", "J", "K", "L", "M",
          "N", "O", "P", "Q", "R", "S", "T", "U", "V", "W", "X", "Y", "Z",
          "a", "b", "c", "d", "e", "f", "g", "h", "i", "j", "k", "l", "m",
          "n", "o", "p", "q", "r", "s", "t", "u", "v", "w", "x", "y", "z",
          "ª", "µ", "º", "À", "Á", "Â", "Ã", "Ä", "Å", "Æ", "Ç", "È", "É",
          "Ê", "Ë", "Ì", "Í", "Î", "Ï", "Ð", "Ñ", "Ò", "Ó", "Ô", "Õ", "Ö",
          "Ø", "Ù", "Ú", "Û", "Ü", "Ý", "Þ", "ß", "à", "á", "â", "ã", "ä",
          "å", "æ", "ç", "è", "é", "ê", "ë", "ì", "í", "î", "ï", "ð", "ñ",
          "ò", "ó", "ô", "õ", "ö", "ø", "ù", "ú", "û", "ü", "ý", "þ", "ÿ",
          "U+0100", "U+0101", "U+0102", "U+0103", "U+0104", "U+0105",
          "U+0106", "U+0107", "U+0108", "U+0109", "U+010A", "U+010B",
          "U+010C", "U+010D", "U+010E", "U+010F", "U+0110", "U+0111",
          "U+0112", "U+0113", "U+0114", "U+0115", "U+0116", "U+0117",
          "U+0118", "U+0119", "U+011A", "U+011B", "U+011C", "U+011D",
          "U+011E", "U+011F", "U+0120", "U+0121", "U+0122", "U+0123",
          "U+0124", "U+0125", "U+0126", "U+0127", "U+0128", "U+0129",
          "U+012A", "U+012B", "U+012C", "U+012D", "U+012E", "U+012F",
          "U+0130", "U+0131", "U+0132", "U+0133", "U+0134", "U+0135",
          "U+0136", "U+0137", "U+0138", "U+0139", "U+013A", "U+013B",
          "U+013C", "U+013D", "U+013E", "U+013F", "U+0140", "U+0141",
          "U+0142", "U+0143", "U+0144", "U+0145", "U+0146", "U+0147",
          "U+0148", "U+0149", "U+014A", "U+014B", "U+014C", "U+014D",
          "U+014E", "U+014F", "U+0150", "U+0151", "U+0152", "U+0153",
          "U+0154", "U+0155", "U+0156", "U+0157", "U+0158", "U+0159",
          "U+015A", "U+015B", "U+015C", "U+015D", "U+015E", "U+015F",
          "U+0160", "U+0161", "U+0162", "U+0163", "U+0164", "U+0165",
          "U+0166", "U+0167", "U+0168", "U+0169", "U+016A", "U+016B",
          "U+016C", "U+016D", "U+016E", "U+016F", "U+0170", "U+0171",
          "U+0172", "U+0173", "U+0174", "U+0175", "U+0176", "U+0177",
          "U+0178", "U+0179", "U+017A", "U+017B", "U+017C", "U+017D",
          "U+017E", "U+017F", "ƀ", "Ɓ", "Ƃ", "ƃ", "Ƅ", "ƅ", "Ɔ", "Ƈ", "ƈ",
          "Ɖ", "Ɗ", "Ƌ", "ƌ", "ƍ", "Ǝ", "Ə", "Ɛ", "Ƒ", "ƒ", "Ɠ", "Ɣ", "ƕ",
          "Ɩ", "Ɨ", "Ƙ", "ƙ", "ƚ", "ƛ", "Ɯ", "Ɲ", "ƞ", "Ɵ", "Ơ", "ơ", "Ƣ",
          "ƣ", "Ƥ", "ƥ", "Ʀ", "Ƨ", "ƨ", "Ʃ", "ƪ", "ƫ", "Ƭ", "ƭ", "Ʈ", "Ư",
          "ư", "Ʊ", "Ʋ", "Ƴ", "ƴ", "Ƶ", "ƶ", "Ʒ", "Ƹ", "ƹ", "ƺ", "Ƽ", "ƽ",
          "ƾ", "ƿ", "Ǆ", "ǅ", "ǆ", "Ǉ", "ǈ", "ǉ", "Ǌ", "ǋ", "ǌ", "Ǎ", "ǎ",
          "Ǐ", "ǐ", "Ǒ", "ǒ", "Ǔ", "ǔ", "Ǖ", "ǖ", "Ǘ", "ǘ", "Ǚ", "ǚ", "Ǜ",
          "ǜ", "ǝ", "Ǟ", "ǟ", "Ǡ", "ǡ", "Ǣ", "ǣ", "Ǥ", "ǥ", "Ǧ", "ǧ", "Ǩ",
          "ǩ", "Ǫ", "ǫ", "Ǭ", "ǭ", "Ǯ", "ǯ", "ǰ", "Ǳ", "ǲ", "ǳ", "Ǵ", "ǵ",
          "Ƕ", "Ƿ", "Ǹ", "ǹ", "Ǻ", "ǻ", "Ǽ", "ǽ", "Ǿ", "ǿ", "U+0200",
          "U+0201", "U+0202", "U+0203", "U+0204", "U+0205", "U+0206",
          "U+0207", "U+0208", "U+0209", "U+020A", "U+020B", "U+020C",
          "U+020D", "U+020E", "U+020F", "U+0210", "U+0211", "U+0212",
          "U+0213", "U+0214", "U+0215", "U+0216", "U+0217", "U+0218",
          "U+0219", "U+021A", "U+021B", "U+021C", "U+021D", "U+021E",
          "U+021F", "U+0220", "U+0221", "U+0222", "U+0223", "U+0224",
          "U+0225", "U+0226", "U+0227", "U+0228", "U+0229", "U+022A",
          "U+022B", "U+022C", "U+022D", "U+022E", "U+022F", "U+0230",
          "U+0231", "U+0232", "U+0233", "U+0234", "U+0235", "U+0236",
          "U+0237", "U+0238", "U+0239", "U+023A", "U+023B", "U+023C",
          "U+023D", "U+023E", "U+023F", "U+0240", "U+0241", "U+0242",
          "U+0243", "U+0244", "U+0245", "U+0246", "U+0247", "U+0248",
          "U+0249", "U+024A", "U+024B", "U+024C", "U+024D", "U+024E",
          "U+024F", "U+0250", "U+0251", "U+0252", "U+0253", "U+0254",
          "U+0255", "U+0256", "U+0257", "U+0258", "U+0259", "U+025A",
          "U+025B", "U+025C", "U+025D", "U+025E", "U+025F", "U+0260",
          "U+0261", "U+0262", "U+0263", "U+0264", "U+0265", "U+0266",
          "U+0267", "U+0268", "U+0269", "U+026A", "U+026B", "U+026C",
          "U+026D", "U+026E", "U+026F", "U+0270", "U+0271", "U+0272",
          "U+0273", "U+0274", "U+0275", "U+0276", "U+0277", "U+0278",
          "U+0279", "U+027A", "U+027B", "U+027C", "U+027D", "U+027E",
          "U+027F", "ʀ", "ʁ", "ʂ", "ʃ", "ʄ", "ʅ", "ʆ", "ʇ", "ʈ", "ʉ", "ʊ",
          "ʋ", "ʌ", "ʍ", "ʎ", "ʏ", "ʐ", "ʑ", "ʒ", "ʓ", "ʖ", "ʗ", "ʘ", "ʙ",
          "ʚ", "ʛ", "ʜ", "ʝ", "ʞ", "ʟ", "ʠ", "ʡ", "ʢ", "ʣ", "ʤ", "ʥ", "ʦ",
          "ʧ", "ʨ", "ʩ", "ʪ", "ʫ", "ʬ", "ʭ", "ʮ", "ʯ", "U+0370", "U+0371",
          "U+0372", "U+0373", "U+0376", "U+0377", "U+037B", "U+037C",
          "U+037D", "U+037F", "Ά", "Έ", "Ή", "Ί", "Ό", "Ύ", "Ώ", "ΐ", "Α",
          "Β", "Γ", "Δ", "Ε", "Ζ", "Η", "Θ", "Ι", "Κ", "Λ", "Μ", "Ν", "Ξ",
          "Ο", "Π", "Ρ", "Σ", "Τ", "Υ", "Φ", "Χ", "Ψ", "Ω", "Ϊ", "Ϋ", "ά",
          "έ", "ή", "ί", "ΰ", "α", "β", "γ", "δ", "ε", "ζ", "η", "θ", "ι",
          "κ", "λ", "μ", "ν", "ξ", "ο", "π", "ρ", "ς", "σ", "τ", "υ", "φ",
          "χ", "ψ", "ω", "ϊ", "ϋ", "ό", "ύ", "ώ", "Ϗ", "ϐ", "ϑ", "ϒ", "ϓ",
          "ϔ", "ϕ", "ϖ", "ϗ", "Ϙ", "ϙ", "Ϛ", "ϛ", "Ϝ", "ϝ", "Ϟ", "ϟ", "Ϡ",
          "ϡ", "Ϣ", "ϣ", "Ϥ", "ϥ", "Ϧ", "ϧ", "Ϩ", "ϩ", "Ϫ", "ϫ", "Ϭ", "ϭ",
          "Ϯ", "ϯ", "ϰ", "ϱ", "ϲ", "ϳ", "ϴ", "ϵ", "Ϸ", "ϸ", "Ϲ", "Ϻ", "ϻ",
          "ϼ", "Ͻ", "Ͼ", "Ͽ", "U+0400", "U+0401", "U+0402", "U+0403",
          "U+0404", "U+0405", "U+0406", "U+0407", "U+0408", "U+0409",
          "U+040A", "U+040B", "U+040C", "U+040D", "U+040E", "U+040F",
          "U+0410", "U+0411", "U+0412", "U+0413", "U+0414", "U+0415",
          "U+0416", "U+0417", "U+0418", "U+0419", "U+041A", "U+041B",
          "U+041C", "U+041D", "U+041E", "U+041F", "U+0420", "U+0421",
          "U+0422", "U+0423", "U+0424", "U+0425", "U+0426", "U+0427",
          "U+0428", "U+0429", "U+042A", "U+042B", "U+042C", "U+042D",
          "U+042E", "U+042F", "U+0430", "U+0431", "U+0432", "U+0433",
          "U+0434", "U+0435", "U+0436", "U+0437", "U+0438", "U+0439",
          "U+043A", "U+043B", "U+043C", "U+043D", "U+043E", "U+043F",
          "U+0440", "U+0441", "U+0442", "U+0443", "U+0444", "U+0445",
          "U+0446", "U+0447", "U+0448", "U+0449", "U+044A", "U+044B",
          "U+044C", "U+044D", "U+044E", "U+044F", "U+0450", "U+0451",
          "U+0452", "U+0453", "U+0454", "U+0455", "U+0456", "U+0457",
          "U+0458", "U+0459", "U+045A", "U+045B", "U+045C", "U+045D",
          "U+045E", "U+045F", "U+0460", "U+0461", "U+0462", "U+0463",
          "U+0464", "U+0465", "U+0466", "U+0467", "U+0468", "U+0469",
          "U+046A", "U+046B", "U+046C", "U+046D", "U+046E", "U+046F",
          "U+0470", "U+0471", "U+0472", "U+0473", "U+0474", "U+0475",
          "U+0476", "U+0477", "U+0478", "U+0479", "U+047A", "U+047B",
          "U+047C", "U+047D", "U+047E", "U+047F", "Ҁ", "ҁ", "Ҋ", "ҋ", "Ҍ",
          "ҍ", "Ҏ", "ҏ", "Ґ", "ґ", "Ғ", "ғ", "Ҕ", "ҕ", "Җ", "җ", "Ҙ", "ҙ",
          "Қ", "қ", "Ҝ", "ҝ", "Ҟ", "ҟ", "Ҡ", "ҡ", "Ң", "ң", "Ҥ", "ҥ", "Ҧ",
          "ҧ", "Ҩ", "ҩ", "Ҫ", "ҫ", "Ҭ", "ҭ", "Ү", "ү", "Ұ", "ұ", "Ҳ", "ҳ",
          "Ҵ", "ҵ", "Ҷ", "ҷ", "Ҹ", "ҹ", "Һ", "һ", "Ҽ", "ҽ", "Ҿ", "ҿ", "Ӏ",
          "Ӂ", "ӂ", "Ӄ", "ӄ", "Ӆ", "ӆ", "Ӈ", "ӈ", "Ӊ", "ӊ", "Ӌ", "ӌ", "Ӎ",
          "ӎ", "ӏ", "Ӑ", "ӑ", "Ӓ", "ӓ", "Ӕ", "ӕ", "Ӗ", "ӗ", "Ә", "ә", "Ӛ",
          "ӛ", "Ӝ", "ӝ", "Ӟ", "ӟ", "Ӡ", "ӡ", "Ӣ", "ӣ", "Ӥ", "ӥ", "Ӧ", "ӧ",
          "Ө", "ө", "Ӫ", "ӫ", "Ӭ", "ӭ", "Ӯ", "ӯ", "Ӱ", "ӱ", "Ӳ", "ӳ", "Ӵ",
          "ӵ", "Ӷ", "ӷ", "Ӹ", "ӹ", "Ӻ", "ӻ", "Ӽ", "ӽ", "Ӿ", "ӿ", "U+0500",
          "U+0501", "U+0502", "U+0503", "U+0504", "U+0505", "U+0506",
          "U+0507", "U+0508", "U+0509", "U+050A", "U+050B", "U+050C",
          "U+050D", "U+050E", "U+050F", "U+0510", "U+0511", "U+0512",
          "U+0513", "U+0514", "U+0515", "U+0516", "U+0517", "U+0518",
          "U+0519", "U+051A", "U+051B", "U+051C", "U+051D", "U+051E",
          "U+051F", "U+0520", "U+0521", "U+0522", "U+0523", "U+0524",
          "U+0525", "U+0526", "U+0527", "U+0528", "U+0529", "U+052A",
          "U+052B", "U+052C", "U+052D", "U+052E", "U+052F", "U+0531",
          "U+0532", "U+0533", "U+0534", "U+0535", "U+0536", "U+0537",
          "U+0538", "U+0539", "U+053A", "U+053B", "U+053C", "U+053D",
          "U+053E", "U+053F", "U+0540", "U+0541", "U+0542", "U+0543",
          "U+0544", "U+0545", "U+0546", "U+0547", "U+0548", "U+0549",
          "U+054A", "U+054B", "U+054C", "U+054D", "U+054E", "U+054F",
          "U+0550", "U+0551", "U+0552", "U+0553", "U+0554", "U+0555",
          "U+0556", "U+0560", "U+0561", "U+0562", "U+0563", "U+0564",
          "U+0565", "U+0566", "U+0567", "U+0568", "U+0569", "U+056A",
          "U+056B", "U+056C", "U+056D", "U+056E", "U+056F", "U+0570",
          "U+0571", "U+0572", "U+0573", "U+0574", "U+0575", "U+0576",
          "U+0577", "U+0578", "U+0579", "U+057A", "U+057B", "U+057C",
          "U+057D", "U+057E", "U+057F", "ր", "ց", "ւ", "փ", "ք", "օ", "ֆ",
          "և", "ֈ", "Ⴀ", "Ⴁ", "Ⴂ", "Ⴃ", "Ⴄ", "Ⴅ", "Ⴆ", "Ⴇ", "Ⴈ", "Ⴉ", "Ⴊ",
          "Ⴋ", "Ⴌ", "Ⴍ", "Ⴎ", "Ⴏ", "Ⴐ", "Ⴑ", "Ⴒ", "Ⴓ", "Ⴔ", "Ⴕ", "Ⴖ", "Ⴗ",
          "Ⴘ", "Ⴙ", "Ⴚ", "Ⴛ", "Ⴜ", "Ⴝ", "Ⴞ", "Ⴟ", "Ⴠ", "Ⴡ", "Ⴢ", "Ⴣ", "Ⴤ",
          "Ⴥ", "Ⴧ", "Ⴭ", "ა", "ბ", "გ", "დ", "ე", "ვ", "ზ", "თ", "ი", "კ",
          "ლ", "მ", "ნ", "ო", "პ", "ჟ", "რ", "ს", "ტ", "უ", "ფ", "ქ", "ღ",
          "ყ", "შ", "ჩ", "ც", "ძ", "წ", "ჭ", "ხ", "ჯ", "ჰ", "ჱ", "ჲ", "ჳ",
          "ჴ", "ჵ", "ჶ", "ჷ", "ჸ", "ჹ", "ჺ", "ჽ", "ჾ", "ჿ", "Ꭰ", "Ꭱ", "Ꭲ",
          "Ꭳ", "Ꭴ", "Ꭵ", "Ꭶ", "Ꭷ", "Ꭸ", "Ꭹ", "Ꭺ", "Ꭻ", "Ꭼ", "Ꭽ", "Ꭾ", "Ꭿ",
          "Ꮀ", "Ꮁ", "Ꮂ", "Ꮃ", "Ꮄ", "Ꮅ", "Ꮆ", "Ꮇ", "Ꮈ", "Ꮉ", "Ꮊ", "Ꮋ", "Ꮌ",
          "Ꮍ", "Ꮎ", "Ꮏ", "Ꮐ", "Ꮑ", "Ꮒ", "Ꮓ", "Ꮔ", "Ꮕ", "Ꮖ", "Ꮗ", "Ꮘ", "Ꮙ",
          "Ꮚ", "Ꮛ", "Ꮜ", "Ꮝ", "Ꮞ", "Ꮟ", "Ꮠ", "Ꮡ", "Ꮢ", "Ꮣ", "Ꮤ", "Ꮥ", "Ꮦ",
          "Ꮧ", "Ꮨ", "Ꮩ", "Ꮪ", "Ꮫ", "Ꮬ", "Ꮭ", "Ꮮ", "Ꮯ", "Ꮰ", "Ꮱ", "Ꮲ", "Ꮳ",
          "Ꮴ", "Ꮵ", "Ꮶ", "Ꮷ", "Ꮸ", "Ꮹ", "Ꮺ", "Ꮻ", "Ꮼ", "Ꮽ", "Ꮾ", "Ꮿ", "Ᏸ",
          "Ᏹ", "Ᏺ", "Ᏻ", "Ᏼ", "Ᏽ", "ᏸ", "ᏹ", "ᏺ", "ᏻ", "ᏼ", "ᏽ", "ᲀ", "ᲁ",
          "ᲂ", "ᲃ", "ᲄ", "ᲅ", "ᲆ", "ᲇ", "ᲈ", "Ᲊ", "ᲊ", "Ა", "Ბ", "Გ", "Დ",
          "Ე", "Ვ", "Ზ", "Თ", "Ი", "Კ", "Ლ", "Მ", "Ნ", "Ო", "Პ", "Ჟ", "Რ",
          "Ს", "Ტ", "Უ", "Ფ", "Ქ", "Ღ", "Ყ", "Შ", "Ჩ", "Ც", "Ძ", "Წ", "Ჭ",
          "Ხ", "Ჯ", "Ჰ", "Ჱ", "Ჲ", "Ჳ", "Ჴ", "Ჵ", "Ჶ", "Ჷ", "Ჸ", "Ჹ", "Ჺ",
          "Ჽ", "Ჾ", "Ჿ", "U+1D00", "U+1D01", "U+1D02", "U+1D03", "U+1D04",
          "U+1D05", "U+1D06", "U+1D07", "U+1D08", "U+1D09", "U+1D0A",
          "U+1D0B", "U+1D0C", "U+1D0D", "U+1D0E", "U+1D0F", "U+1D10",
          "U+1D11", "U+1D12", "U+1D13", "U+1D14", "U+1D15", "U+1D16",
          "U+1D17", "U+1D18", "U+1D19", "U+1D1A", "U+1D1B", "U+1D1C",
          "U+1D1D", "U+1D1E", "U+1D1F", "U+1D20", "U+1D21", "U+1D22",
          "U+1D23", "U+1D24", "U+1D25", "U+1D26", "U+1D27", "U+1D28",
          "U+1D29", "U+1D2A", "U+1D2B", "U+1D6B", "U+1D6C", "U+1D6D",
          "U+1D6E", "U+1D6F", "U+1D70", "U+1D71", "U+1D72", "U+1D73",
          "U+1D74", "U+1D75", "U+1D76", "U+1D77", "U+1D79", "U+1D7A",
          "U+1D7B", "U+1D7C", "U+1D7D", "U+1D7E", "U+1D7F", "ᶀ", "ᶁ", "ᶂ",
          "ᶃ", "ᶄ", "ᶅ", "ᶆ", "ᶇ", "ᶈ", "ᶉ", "ᶊ", "ᶋ", "ᶌ", "ᶍ", "ᶎ", "ᶏ",
          "ᶐ", "ᶑ", "ᶒ", "ᶓ", "ᶔ", "ᶕ", "ᶖ", "ᶗ", "ᶘ", "ᶙ", "ᶚ", "U+1E00",
          "U+1E01", "U+1E02", "U+1E03", "U+1E04", "U+1E05", "U+1E06",
          "U+1E07", "U+1E08", "U+1E09", "U+1E0A", "U+1E0B", "U+1E0C",
          "U+1E0D", "U+1E0E", "U+1E0F", "U+1E10", "U+1E11", "U+1E12",
          "U+1E13", "U+1E14", "U+1E15", "U+1E16", "U+1E17", "U+1E18",
          "U+1E19", "U+1E1A", "U+1E1B", "U+1E1C", "U+1E1D", "U+1E1E",
          "U+1E1F", "U+1E20", "U+1E21", "U+1E22", "U+1E23", "U+1E24",
          "U+1E25", "U+1E26", "U+1E27", "U+1E28", "U+1E29", "U+1E2A",
          "U+1E2B", "U+1E2C", "U+1E2D", "U+1E2E", "U+1E2F", "U+1E30",
          "U+1E31", "U+1E32", "U+1E33", "U+1E34", "U+1E35", "U+1E36",
          "U+1E37", "U+1E38", "U+1E39", "U+1E3A", "U+1E3B", "U+1E3C",
          "U+1E3D", "U+1E3E", "U+1E3F", "U+1E40", "U+1E41", "U+1E42",
          "U+1E43", "U+1E44", "U+1E45", "U+1E46", "U+1E47", "U+1E48",
          "U+1E49", "U+1E4A", "U+1E4B", "U+1E4C", "U+1E4D", "U+1E4E",
          "U+1E4F", "U+1E50", "U+1E51", "U+1E52", "U+1E53", "U+1E54",
          "U+1E55", "U+1E56", "U+1E57", "U+1E58", "U+1E59", "U+1E5A",
          "U+1E5B", "U+1E5C", "U+1E5D", "U+1E5E", "U+1E5F", "U+1E60",
          "U+1E61", "U+1E62", "U+1E63", "U+1E64", "U+1E65", "U+1E66",
          "U+1E67", "U+1E68", "U+1E69", "U+1E6A", "U+1E6B", "U+1E6C",
          "U+1E6D", "U+1E6E", "U+1E6F", "U+1E70", "U+1E71", "U+1E72",
          "U+1E73", "U+1E74", "U+1E75", "U+1E76", "U+1E77", "U+1E78",
          "U+1E79", "U+1E7A", "U+1E7B", "U+1E7C", "U+1E7D", "U+1E7E",
          "U+1E7F", "Ẁ", "ẁ", "Ẃ", "ẃ", "Ẅ", "ẅ", "Ẇ", "ẇ", "Ẉ", "ẉ", "Ẋ",
          "ẋ", "Ẍ", "ẍ", "Ẏ", "ẏ", "Ẑ", "ẑ", "Ẓ", "ẓ", "Ẕ", "ẕ", "ẖ", "ẗ",
          "ẘ", "ẙ", "ẚ", "ẛ", "ẜ", "ẝ", "ẞ", "ẟ", "Ạ", "ạ", "Ả", "ả", "Ấ",
          "ấ", "Ầ", "ầ", "Ẩ", "ẩ", "Ẫ", "ẫ", "Ậ", "ậ", "Ắ", "ắ", "Ằ", "ằ",
          "Ẳ", "ẳ", "Ẵ", "ẵ", "Ặ", "ặ", "Ẹ", "ẹ", "Ẻ", "ẻ", "Ẽ", "ẽ", "Ế",
          "ế", "Ề", "ề", "Ể", "ể", "Ễ", "ễ", "Ệ", "ệ", "Ỉ", "ỉ", "Ị", "ị",
          "Ọ", "ọ", "Ỏ", "ỏ", "Ố", "ố", "Ồ", "ồ", "Ổ", "ổ", "Ỗ", "ỗ", "Ộ",
          "ộ", "Ớ", "ớ", "Ờ", "ờ", "Ở", "ở", "Ỡ", "ỡ", "Ợ", "ợ", "Ụ", "ụ",
          "Ủ", "ủ", "Ứ", "ứ", "Ừ", "ừ", "Ử", "ử", "Ữ", "ữ", "Ự", "ự", "Ỳ",
          "ỳ", "Ỵ", "ỵ", "Ỷ", "ỷ", "Ỹ", "ỹ", "Ỻ", "ỻ", "Ỽ", "ỽ", "Ỿ", "ỿ",
          "U+1F00", "U+1F01", "U+1F02", "U+1F03", "U+1F04", "U+1F05",
          "U+1F06", "U+1F07", "U+1F08", "U+1F09", "U+1F0A", "U+1F0B",
          "U+1F0C", "U+1F0D", "U+1F0E", "U+1F0F", "U+1F10", "U+1F11",
          "U+1F12", "U+1F13", "U+1F14", "U+1F15", "U+1F18", "U+1F19",
          "U+1F1A", "U+1F1B", "U+1F1C", "U+1F1D", "U+1F20", "U+1F21",
          "U+1F22", "U+1F23", "U+1F24", "U+1F25", "U+1F26", "U+1F27",
          "U+1F28", "U+1F29", "U+1F2A", "U+1F2B", "U+1F2C", "U+1F2D",
          "U+1F2E", "U+1F2F", "U+1F30", "U+1F31", "U+1F32", "U+1F33",
          "U+1F34", "U+1F35", "U+1F36", "U+1F37", "U+1F38", "U+1F39",
          "U+1F3A", "U+1F3B", "U+1F3C", "U+1F3D", "U+1F3E", "U+1F3F",
          "U+1F40", "U+1F41", "U+1F42", "U+1F43", "U+1F44", "U+1F45",
          "U+1F48", "U+1F49", "U+1F4A", "U+1F4B", "U+1F4C", "U+1F4D",
          "U+1F50", "U+1F51", "U+1F52", "U+1F53", "U+1F54", "U+1F55",
          "U+1F56", "U+1F57", "U+1F59", "U+1F5B", "U+1F5D", "U+1F5F",
          "U+1F60", "U+1F61", "U+1F62", "U+1F63", "U+1F64", "U+1F65",
          "U+1F66", "U+1F67", "U+1F68", "U+1F69", "U+1F6A", "U+1F6B",
          "U+1F6C", "U+1F6D", "U+1F6E", "U+1F6F", "U+1F70", "U+1F71",
          "U+1F72", "U+1F73", "U+1F74", "U+1F75", "U+1F76", "U+1F77",
          "U+1F78", "U+1F79", "U+1F7A", "U+1F7B", "U+1F7C", "U+1F7D", "ᾀ",
          "ᾁ", "ᾂ", "ᾃ", "ᾄ", "ᾅ", "ᾆ", "ᾇ", "ᾈ", "ᾉ", "ᾊ", "ᾋ", "ᾌ", "ᾍ",
          "ᾎ", "ᾏ", "ᾐ", "ᾑ", "ᾒ", "ᾓ", "ᾔ", "ᾕ", "ᾖ", "ᾗ", "ᾘ", "ᾙ", "ᾚ",
          "ᾛ", "ᾜ", "ᾝ", "ᾞ", "ᾟ", "ᾠ", "ᾡ", "ᾢ", "ᾣ", "ᾤ", "ᾥ", "ᾦ", "ᾧ",
          "ᾨ", "ᾩ", "ᾪ", "ᾫ", "ᾬ", "ᾭ", "ᾮ", "ᾯ", "ᾰ", "ᾱ", "ᾲ", "ᾳ", "ᾴ",
          "ᾶ", "ᾷ", "Ᾰ", "Ᾱ", "Ὰ", "Ά", "ᾼ", "ι", "ῂ", "ῃ", "ῄ", "ῆ", "ῇ",
          "Ὲ", "Έ", "Ὴ", "Ή", "ῌ", "ῐ", "ῑ", "ῒ", "ΐ", "ῖ", "ῗ", "Ῐ", "Ῑ",
          "Ὶ", "Ί", "ῠ", "ῡ", "ῢ", "ΰ", "ῤ", "ῥ", "ῦ", "ῧ", "Ῠ", "Ῡ", "Ὺ",
          "Ύ", "Ῥ", "ῲ", "ῳ", "ῴ", "ῶ", "ῷ", "Ὸ", "Ό", "Ὼ", "Ώ", "ῼ",
          "U+2102", "U+2107", "U+210A", "U+210B", "U+210C", "U+210D",
          "U+210E", "U+210F", "U+2110", "U+2111", "U+2112", "U+2113",
          "U+2115", "U+2119", "U+211A", "U+211B", "U+211C", "U+211D",
          "U+2124", "U+2126", "U+2128", "U+212A", "U+212B", "U+212C",
          "U+212D", "U+212F", "U+2130", "U+2131", "U+2132", "U+2133",
          "U+2134", "U+2139", "U+213C", "U+213D", "U+213E", "U+213F",
          "U+2145", "U+2146", "U+2147", "U+2148", "U+2149", "U+214E",
          "U+2160", "U+2161", "U+2162", "U+2163", "U+2164", "U+2165",
          "U+2166", "U+2167", "U+2168", "U+2169", "U+216A", "U+216B",
          "U+216C", "U+216D", "U+216E", "U+216F", "U+2170", "U+2171",
          "U+2172", "U+2173", "U+2174", "U+2175", "U+2176", "U+2177",
          "U+2178", "U+2179", "U+217A", "U+217B", "U+217C", "U+217D",
          "U+217E", "U+217F", "Ↄ", "ↄ", "Ⓐ", "Ⓑ", "Ⓒ", "Ⓓ", "Ⓔ", "Ⓕ", "Ⓖ",
          "Ⓗ", "Ⓘ", "Ⓙ", "Ⓚ", "Ⓛ", "Ⓜ", "Ⓝ", "Ⓞ", "Ⓟ", "Ⓠ", "Ⓡ", "Ⓢ", "Ⓣ",
          "Ⓤ", "Ⓥ", "Ⓦ", "Ⓧ", "Ⓨ", "Ⓩ", "ⓐ", "ⓑ", "ⓒ", "ⓓ", "ⓔ", "ⓕ", "ⓖ",
          "ⓗ", "ⓘ", "ⓙ", "ⓚ", "ⓛ", "ⓜ", "ⓝ", "ⓞ", "ⓟ", "ⓠ", "ⓡ", "ⓢ", "ⓣ",
          "ⓤ", "ⓥ", "ⓦ", "ⓧ", "ⓨ", "ⓩ", "U+2C00", "U+2C01", "U+2C02",
          "U+2C03", "U+2C04", "U+2C05", "U+2C06", "U+2C07", "U+2C08",
          "U+2C09", "U+2C0A", "U+2C0B", "U+2C0C", "U+2C0D", "U+2C0E",
          "U+2C0F", "U+2C10", "U+2C11", "U+2C12", "U+2C13", "U+2C14",
          "U+2C15", "U+2C16", "U+2C17", "U+2C18", "U+2C19", "U+2C1A",
          "U+2C1B", "U+2C1C", "U+2C1D", "U+2C1E", "U+2C1F", "U+2C20",
          "U+2C21", "U+2C22", "U+2C23", "U+2C24", "U+2C25", "U+2C26",
          "U+2C27", "U+2C28", "U+2C29", "U+2C2A", "U+2C2B", "U+2C2C",
          "U+2C2D", "U+2C2E", "U+2C2F", "U+2C30", "U+2C31", "U+2C32",
          "U+2C33", "U+2C34", "U+2C35", "U+2C36", "U+2C37", "U+2C38",
          "U+2C39", "U+2C3A", "U+2C3B", "U+2C3C", "U+2C3D", "U+2C3E",
          "U+2C3F", "U+2C40", "U+2C41", "U+2C42", "U+2C43", "U+2C44",
          "U+2C45", "U+2C46", "U+2C47", "U+2C48", "U+2C49", "U+2C4A",
          "U+2C4B", "U+2C4C", "U+2C4D", "U+2C4E", "U+2C4F", "U+2C50",
          "U+2C51", "U+2C52", "U+2C53", "U+2C54", "U+2C55", "U+2C56",
          "U+2C57", "U+2C58", "U+2C59", "U+2C5A", "U+2C5B", "U+2C5C",
          "U+2C5D", "U+2C5E", "U+2C5F", "U+2C60", "U+2C61", "U+2C62",
          "U+2C63", "U+2C64", "U+2C65", "U+2C66", "U+2C67", "U+2C68",
          "U+2C69", "U+2C6A", "U+2C6B", "U+2C6C", "U+2C6D", "U+2C6E",
          "U+2C6F", "U+2C70", "U+2C71", "U+2C72", "U+2C73", "U+2C74",
          "U+2C75", "U+2C76", "U+2C77", "U+2C78", "U+2C79", "U+2C7A",
          "U+2C7B", "U+2C7E", "U+2C7F", "Ⲁ", "ⲁ", "Ⲃ", "ⲃ", "Ⲅ", "ⲅ", "Ⲇ",
          "ⲇ", "Ⲉ", "ⲉ", "Ⲋ", "ⲋ", "Ⲍ", "ⲍ", "Ⲏ", "ⲏ", "Ⲑ", "ⲑ", "Ⲓ", "ⲓ",
          "Ⲕ", "ⲕ", "Ⲗ", "ⲗ", "Ⲙ", "ⲙ", "Ⲛ", "ⲛ", "Ⲝ", "ⲝ", "Ⲟ", "ⲟ", "Ⲡ",
          "ⲡ", "Ⲣ", "ⲣ", "Ⲥ", "ⲥ", "Ⲧ", "ⲧ", "Ⲩ", "ⲩ", "Ⲫ", "ⲫ", "Ⲭ", "ⲭ",
          "Ⲯ", "ⲯ", "Ⲱ", "ⲱ", "Ⲳ", "ⲳ", "Ⲵ", "ⲵ", "Ⲷ", "ⲷ", "Ⲹ", "ⲹ", "Ⲻ",
          "ⲻ", "Ⲽ", "ⲽ", "Ⲿ", "ⲿ", "Ⳁ", "ⳁ", "Ⳃ", "ⳃ", "Ⳅ", "ⳅ", "Ⳇ", "ⳇ",
          "Ⳉ", "ⳉ", "Ⳋ", "ⳋ", "Ⳍ", "ⳍ", "Ⳏ", "ⳏ", "Ⳑ", "ⳑ", "Ⳓ", "ⳓ", "Ⳕ",
          "ⳕ", "Ⳗ", "ⳗ", "Ⳙ", "ⳙ", "Ⳛ", "ⳛ", "Ⳝ", "ⳝ", "Ⳟ", "ⳟ", "Ⳡ", "ⳡ",
          "Ⳣ", "ⳣ", "ⳤ", "Ⳬ", "ⳬ", "Ⳮ", "ⳮ", "Ⳳ", "ⳳ", "U+2D00", "U+2D01",
          "U+2D02", "U+2D03", "U+2D04", "U+2D05", "U+2D06", "U+2D07",
          "U+2D08", "U+2D09", "U+2D0A", "U+2D0B", "U+2D0C", "U+2D0D",
          "U+2D0E", "U+2D0F", "U+2D10", "U+2D11", "U+2D12", "U+2D13",
          "U+2D14", "U+2D15", "U+2D16", "U+2D17", "U+2D18", "U+2D19",
          "U+2D1A", "U+2D1B", "U+2D1C", "U+2D1D", "U+2D1E", "U+2D1F",
          "U+2D20", "U+2D21", "U+2D22", "U+2D23", "U+2D24", "U+2D25",
          "U+2D27", "U+2D2D", "U+A640", "U+A641", "U+A642", "U+A643",
          "U+A644", "U+A645", "U+A646", "U+A647", "U+A648", "U+A649",
          "U+A64A", "U+A64B", "U+A64C", "U+A64D", "U+A64E", "U+A64F",
          "U+A650", "U+A651", "U+A652", "U+A653", "U+A654", "U+A655",
          "U+A656", "U+A657", "U+A658", "U+A659", "U+A65A", "U+A65B",
          "U+A65C", "U+A65D", "U+A65E", "U+A65F", "U+A660", "U+A661",
          "U+A662", "U+A663", "U+A664", "U+A665", "U+A666", "U+A667",
          "U+A668", "U+A669", "U+A66A", "U+A66B", "U+A66C", "U+A66D", "Ꚁ",
          "ꚁ", "Ꚃ", "ꚃ", "Ꚅ", "ꚅ", "Ꚇ", "ꚇ", "Ꚉ", "ꚉ", "Ꚋ", "ꚋ", "Ꚍ", "ꚍ",
          "Ꚏ", "ꚏ", "Ꚑ", "ꚑ", "Ꚓ", "ꚓ", "Ꚕ", "ꚕ", "Ꚗ", "ꚗ", "Ꚙ", "ꚙ", "Ꚛ",
          "ꚛ", "U+A722", "U+A723", "U+A724", "U+A725", "U+A726", "U+A727",
          "U+A728", "U+A729", "U+A72A", "U+A72B", "U+A72C", "U+A72D",
          "U+A72E", "U+A72F", "U+A730", "U+A731", "U+A732", "U+A733",
          "U+A734", "U+A735", "U+A736", "U+A737", "U+A738", "U+A739",
          "U+A73A", "U+A73B", "U+A73C", "U+A73D", "U+A73E", "U+A73F",
          "U+A740", "U+A741", "U+A742", "U+A743", "U+A744", "U+A745",
          "U+A746", "U+A747", "U+A748", "U+A749", "U+A74A", "U+A74B",
          "U+A74C", "U+A74D", "U+A74E", "U+A74F", "U+A750", "U+A751",
          "U+A752", "U+A753", "U+A754", "U+A755", "U+A756", "U+A757",
          "U+A758", "U+A759", "U+A75A", "U+A75B", "U+A75C", "U+A75D",
          "U+A75E", "U+A75F", "U+A760", "U+A761", "U+A762", "U+A763",
          "U+A764", "U+A765", "U+A766", "U+A767", "U+A768", "U+A769",
          "U+A76A", "U+A76B", "U+A76C", "U+A76D", "U+A76E", "U+A76F",
          "U+A771", "U+A772", "U+A773", "U+A774", "U+A775", "U+A776",
          "U+A777", "U+A778", "U+A779", "U+A77A", "U+A77B", "U+A77C",
          "U+A77D", "U+A77E", "U+A77F", "Ꞁ", "ꞁ", "Ꞃ", "ꞃ", "Ꞅ", "ꞅ", "Ꞇ",
          "ꞇ", "Ꞌ", "ꞌ", "Ɥ", "ꞎ", "Ꞑ", "ꞑ", "Ꞓ", "ꞓ", "ꞔ", "ꞕ", "Ꞗ", "ꞗ",
          "Ꞙ", "ꞙ", "Ꞛ", "ꞛ", "Ꞝ", "ꞝ", "Ꞟ", "ꞟ", "Ꞡ", "ꞡ", "Ꞣ", "ꞣ", "Ꞥ",
          "ꞥ", "Ꞧ", "ꞧ", "Ꞩ", "ꞩ", "Ɦ", "Ɜ", "Ɡ", "Ɬ", "Ɪ", "ꞯ", "Ʞ", "Ʇ",
          "Ʝ", "Ꭓ", "Ꞵ", "ꞵ", "Ꞷ", "ꞷ", "Ꞹ", "ꞹ", "Ꞻ", "ꞻ", "Ꞽ", "ꞽ", "Ꞿ",
          "ꞿ", "Ꟁ", "ꟁ", "Ꟃ", "ꟃ", "Ꞔ", "Ʂ", "Ᶎ", "Ꟈ", "ꟈ", "Ꟊ", "ꟊ", "Ɤ",
          "Ꟍ", "ꟍ", "꟎", "꟏", "Ꟑ", "ꟑ", "꟒", "ꟓ", "꟔", "ꟕ", "Ꟗ", "ꟗ", "Ꟙ",
          "ꟙ", "Ꟛ", "ꟛ", "Ƛ", "Ꟶ", "ꟶ", "ꟺ", "U+AB30", "U+AB31", "U+AB32",
          "U+AB33", "U+AB34", "U+AB35", "U+AB36", "U+AB37", "U+AB38",
          "U+AB39", "U+AB3A", "U+AB3B", "U+AB3C", "U+AB3D", "U+AB3E",
          "U+AB3F", "U+AB40", "U+AB41", "U+AB42", "U+AB43", "U+AB44",
          "U+AB45", "U+AB46", "U+AB47", "U+AB48", "U+AB49", "U+AB4A",
          "U+AB4B", "U+AB4C", "U+AB4D", "U+AB4E", "U+AB4F", "U+AB50",
          "U+AB51", "U+AB52", "U+AB53", "U+AB54", "U+AB55", "U+AB56",
          "U+AB57", "U+AB58", "U+AB59", "U+AB5A", "U+AB60", "U+AB61",
          "U+AB62", "U+AB63", "U+AB64", "U+AB65", "U+AB66", "U+AB67",
          "U+AB68", "U+AB70", "U+AB71", "U+AB72", "U+AB73", "U+AB74",
          "U+AB75", "U+AB76", "U+AB77", "U+AB78", "U+AB79", "U+AB7A",
          "U+AB7B", "U+AB7C", "U+AB7D", "U+AB7E", "U+AB7F", "ꮀ", "ꮁ", "ꮂ",
          "ꮃ", "ꮄ", "ꮅ", "ꮆ", "ꮇ", "ꮈ", "ꮉ", "ꮊ", "ꮋ", "ꮌ", "ꮍ", "ꮎ", "ꮏ",
          "ꮐ", "ꮑ", "ꮒ", "ꮓ", "ꮔ", "ꮕ", "ꮖ", "ꮗ", "ꮘ", "ꮙ", "ꮚ", "ꮛ", "ꮜ",
          "ꮝ", "ꮞ", "ꮟ", "ꮠ", "ꮡ", "ꮢ", "ꮣ", "ꮤ", "ꮥ", "ꮦ", "ꮧ", "ꮨ", "ꮩ",
          "ꮪ", "ꮫ", "ꮬ", "ꮭ", "ꮮ", "ꮯ", "ꮰ", "ꮱ", "ꮲ", "ꮳ", "ꮴ", "ꮵ", "ꮶ",
          "ꮷ", "ꮸ", "ꮹ", "ꮺ", "ꮻ", "ꮼ", "ꮽ", "ꮾ", "ꮿ", "U+FB00", "U+FB01",
          "U+FB02", "U+FB03", "U+FB04", "U+FB05", "U+FB06", "U+FB13",
          "U+FB14", "U+FB15", "U+FB16", "U+FB17", "U+FF21", "U+FF22",
          "U+FF23", "U+FF24", "U+FF25", "U+FF26", "U+FF27", "U+FF28",
          "U+FF29", "U+FF2A", "U+FF2B", "U+FF2C", "U+FF2D", "U+FF2E",
          "U+FF2F", "U+FF30", "U+FF31", "U+FF32", "U+FF33", "U+FF34",
          "U+FF35", "U+FF36", "U+FF37", "U+FF38", "U+FF39", "U+FF3A",
          "U+FF41", "U+FF42", "U+FF43", "U+FF44", "U+FF45", "U+FF46",
          "U+FF47", "U+FF48", "U+FF49", "U+FF4A", "U+FF4B", "U+FF4C",
          "U+FF4D", "U+FF4E", "U+FF4F", "U+FF50", "U+FF51", "U+FF52",
          "U+FF53", "U+FF54", "U+FF55", "U+FF56", "U+FF57", "U+FF58",
          "U+FF59", "U+FF5A" } }
        \cup
        { <<"U+D801", "U+DC00">>, <<"U+D801", "U+DC01">>,
          <<"U+D801", "U+DC02">>, <<"U+D801", "U+DC03">>,
          <<"U+D801", "U+DC04">>, <<"U+D801", "U+DC05">>,
          <<"U+D801", "U+DC06">>, <<"U+D801", "U+DC07">>,
          <<"U+D801", "U+DC08">>, <<"U+D801", "U+DC09">>,
          <<"U+D801", "U+DC0A">>, <<"U+D801", "U+DC0B">>,
          <<"U+D801", "U+DC0C">>, <<"U+D801", "U+DC0D">>,
          <<"U+D801", "U+DC0E">>, <<"U+D801", "U+DC0F">>,
          <<"U+D801", "U+DC10">>, <<"U+D801", "U+DC11">>,
          <<"U+D801", "U+DC12">>, <<"U+D801", "U+DC13">>,
          <<"U+D801", "U+DC14">>, <<"U+D801", "U+DC15">>,
          <<"U+D801", "U+DC16">>, <<"U+D801", "U+DC17">>,
          <<"U+D801", "U+DC18">>, <<"U+D801", "U+DC19">>,
          <<"U+D801", "U+DC1A">>, <<"U+D801", "U+DC1B">>,
          <<"U+D801", "U+DC1C">>, <<"U+D801", "U+DC1D">>,
          <<"U+D801", "U+DC1E">>, <<"U+D801", "U+DC1F">>,
          <<"U+D801", "U+DC20">>, <<"U+D801", "U+DC21">>,
          <<"U+D801", "U+DC22">>, <<"U+D801", "U+DC23">>,
          <<"U+D801", "U+DC24">>, <<"U+D801", "U+DC25">>,
          <<"U+D801", "U+DC26">>, <<"U+D801", "U+DC27">>,
          <<"U+D801", "U+DC28">>, <<"U+D801", "U+DC29">>,
          <<"U+D801", "U+DC2A">>, <<"U+D801", "U+DC2B">>,
          <<"U+D801", "U+DC2C">>, <<"U+D801", "U+DC2D">>,
          <<"U+D801", "U+DC2E">>, <<"U+D801", "U+DC2F">>,
          <<"U+D801", "U+DC30">>, <<"U+D801", "U+DC31">>,
          <<"U+D801", "U+DC32">>, <<"U+D801", "U+DC33">>,
          <<"U+D801", "U+DC34">>, <<"U+D801", "U+DC35">>,
          <<"U+D801", "U+DC36">>, <<"U+D801", "U+DC37">>,
          <<"U+D801", "U+DC38">>, <<"U+D801", "U+DC39">>,
          <<"U+D801", "U+DC3A">>, <<"U+D801", "U+DC3B">>,
          <<"U+D801", "U+DC3C">>, <<"U+D801", "U+DC3D">>,
          <<"U+D801", "U+DC3E">>, <<"U+D801", "U+DC3F">>,
          <<"U+D801", "U+DC40">>, <<"U+D801", "U+DC41">>,
          <<"U+D801", "U+DC42">>, <<"U+D801", "U+DC43">>,
          <<"U+D801", "U+DC44">>, <<"U+D801", "U+DC45">>,
          <<"U+D801", "U+DC46">>, <<"U+D801", "U+DC47">>,
          <<"U+D801", "U+DC48">>, <<"U+D801", "U+DC49">>,
          <<"U+D801", "U+DC4A">>, <<"U+D801", "U+DC4B">>,
          <<"U+D801", "U+DC4C">>, <<"U+D801", "U+DC4D">>,
          <<"U+D801", "U+DC4E">>, <<"U+D801", "U+DC4F">>,
          <<"U+D801", "U+DCB0">>, <<"U+D801", "U+DCB1">>,
          <<"U+D801", "U+DCB2">>, <<"U+D801", "U+DCB3">>,
          <<"U+D801", "U+DCB4">>, <<"U+D801", "U+DCB5">>,
          <<"U+D801", "U+DCB6">>, <<"U+D801", "U+DCB7">>,
          <<"U+D801", "U+DCB8">>, <<"U+D801", "U+DCB9">>,
          <<"U+D801", "U+DCBA">>, <<"U+D801", "U+DCBB">>,
          <<"U+D801", "U+DCBC">>, <<"U+D801", "U+DCBD">>,
          <<"U+D801", "U+DCBE">>, <<"U+D801", "U+DCBF">>,
          <<"U+D801", "U+DCC0">>, <<"U+D801", "U+DCC1">>,
          <<"U+D801", "U+DCC2">>, <<"U+D801", "U+DCC3">>,
          <<"U+D801", "U+DCC4">>, <<"U+D801", "U+DCC5">>,
          <<"U+D801", "U+DCC6">>, <<"U+D801", "U+DCC7">>,
          <<"U+D801", "U+DCC8">>, <<"U+D801", "U+DCC9">>,
          <<"U+D801", "U+DCCA">>, <<"U+D801", "U+DCCB">>,
          <<"U+D801", "U+DCCC">>, <<"U+D801", "U+DCCD">>,
          <<"U+D801", "U+DCCE">>, <<"U+D801", "U+DCCF">>,
          <<"U+D801", "U+DCD0">>, <<"U+D801", "U+DCD1">>,
          <<"U+D801", "U+DCD2">>, <<"U+D801", "U+DCD3">>,
          <<"U+D801", "U+DCD8">>, <<"U+D801", "U+DCD9">>,
          <<"U+D801", "U+DCDA">>, <<"U+D801", "U+DCDB">>,
          <<"U+D801", "U+DCDC">>, <<"U+D801", "U+DCDD">>,
          <<"U+D801", "U+DCDE">>, <<"U+D801", "U+DCDF">>,
          <<"U+D801", "U+DCE0">>, <<"U+D801", "U+DCE1">>,
          <<"U+D801", "U+DCE2">>, <<"U+D801", "U+DCE3">>,
          <<"U+D801", "U+DCE4">>, <<"U+D801", "U+DCE5">>,
          <<"U+D801", "U+DCE6">>, <<"U+D801", "U+DCE7">>,
          <<"U+D801", "U+DCE8">>, <<"U+D801", "U+DCE9">>,
          <<"U+D801", "U+DCEA">>, <<"U+D801", "U+DCEB">>,
          <<"U+D801", "U+DCEC">>, <<"U+D801", "U+DCED">>,
          <<"U+D801", "U+DCEE">>, <<"U+D801", "U+DCEF">>,
          <<"U+D801", "U+DCF0">>, <<"U+D801", "U+DCF1">>,
          <<"U+D801", "U+DCF2">>, <<"U+D801", "U+DCF3">>,
          <<"U+D801", "U+DCF4">>, <<"U+D801", "U+DCF5">>,
          <<"U+D801", "U+DCF6">>, <<"U+D801", "U+DCF7">>,
          <<"U+D801", "U+DCF8">>, <<"U+D801", "U+DCF9">>,
          <<"U+D801", "U+DCFA">>, <<"U+D801", "U+DCFB">>,
          <<"U+D801", "U+DD70">>, <<"U+D801", "U+DD71">>,
          <<"U+D801", "U+DD72">>, <<"U+D801", "U+DD73">>,
          <<"U+D801", "U+DD74">>, <<"U+D801", "U+DD75">>,
          <<"U+D801", "U+DD76">>, <<"U+D801", "U+DD77">>,
          <<"U+D801", "U+DD78">>, <<"U+D801", "U+DD79">>,
          <<"U+D801", "U+DD7A">>, <<"U+D801", "U+DD7C">>,
          <<"U+D801", "U+DD7D">>, <<"U+D801", "U+DD7E">>,
          <<"U+D801", "U+DD7F">>, <<"U+D801", "U+DD80">>,
          <<"U+D801", "U+DD81">>, <<"U+D801", "U+DD82">>,
          <<"U+D801", "U+DD83">>, <<"U+D801", "U+DD84">>,
          <<"U+D801", "U+DD85">>, <<"U+D801", "U+DD86">>,
          <<"U+D801", "U+DD87">>, <<"U+D801", "U+DD88">>,
          <<"U+D801", "U+DD89">>, <<"U+D801", "U+DD8A">>,
          <<"U+D801", "U+DD8C">>, <<"U+D801", "U+DD8D">>,
          <<"U+D801", "U+DD8E">>, <<"U+D801", "U+DD8F">>,
          <<"U+D801", "U+DD90">>, <<"U+D801", "U+DD91">>,
          <<"U+D801", "U+DD92">>, <<"U+D801", "U+DD94">>,
          <<"U+D801", "U+DD95">>, <<"U+D801", "U+DD97">>,
          <<"U+D801", "U+DD98">>, <<"U+D801", "U+DD99">>,
          <<"U+D801", "U+DD9A">>, <<"U+D801", "U+DD9B">>,
          <<"U+D801", "U+DD9C">>, <<"U+D801", "U+DD9D">>,
          <<"U+D801", "U+DD9E">>, <<"U+D801", "U+DD9F">>,
          <<"U+D801", "U+DDA0">>, <<"U+D801", "U+DDA1">>,
          <<"U+D801", "U+DDA3">>, <<"U+D801", "U+DDA4">>,
          <<"U+D801", "U+DDA5">>, <<"U+D801", "U+DDA6">>,
          <<"U+D801", "U+DDA7">>, <<"U+D801", "U+DDA8">>,
          <<"U+D801", "U+DDA9">>, <<"U+D801", "U+DDAA">>,
          <<"U+D801", "U+DDAB">>, <<"U+D801", "U+DDAC">>,
          <<"U+D801", "U+DDAD">>, <<"U+D801", "U+DDAE">>,
          <<"U+D801", "U+DDAF">>, <<"U+D801", "U+DDB0">>,
          <<"U+D801", "U+DDB1">>, <<"U+D801", "U+DDB3">>,
          <<"U+D801", "U+DDB4">>, <<"U+D801", "U+DDB5">>,
          <<"U+D801", "U+DDB6">>, <<"U+D801", "U+DDB7">>,
          <<"U+D801", "U+DDB8">>, <<"U+D801", "U+DDB9">>,
          <<"U+D801", "U+DDBB">>, <<"U+D801", "U+DDBC">>,
          <<"U+D803", "U+DC80">>, <<"U+D803", "U+DC81">>,
          <<"U+D803", "U+DC82">>, <<"U+D803", "U+DC83">>,
          <<"U+D803", "U+DC84">>, <<"U+D803", "U+DC85">>,
          <<"U+D803", "U+DC86">>, <<"U+D803", "U+DC87">>,
          <<"U+D803", "U+DC88">>, <<"U+D803", "U+DC89">>,
          <<"U+D803", "U+DC8A">>, <<"U+D803", "U+DC8B">>,
          <<"U+D803", "U+DC8C">>, <<"U+D803", "U+DC8D">>,
          <<"U+D803", "U+DC8E">>, <<"U+D803", "U+DC8F">>,
          <<"U+D803", "U+DC90">>, <<"U+D803", "U+DC91">>,
          <<"U+D803", "U+DC92">>, <<"U+D803", "U+DC93">>,
          <<"U+D803", "U+DC94">>, <<"U+D803", "U+DC95">>,
          <<"U+D803", "U+DC96">>, <<"U+D803", "U+DC97">>,
          <<"U+D803", "U+DC98">>, <<"U+D803", "U+DC99">>,
          <<"U+D803", "U+DC9A">>, <<"U+D803", "U+DC9B">>,
          <<"U+D803", "U+DC9C">>, <<"U+D803", "U+DC9D">>,
          <<"U+D803", "U+DC9E">>, <<"U+D803", "U+DC9F">>,
          <<"U+D803", "U+DCA0">>, <<"U+D803", "U+DCA1">>,
          <<"U+D803", "U+DCA2">>, <<"U+D803", "U+DCA3">>,
          <<"U+D803", "U+DCA4">>, <<"U+D803", "U+DCA5">>,
          <<"U+D803", "U+DCA6">>, <<"U+D803", "U+DCA7">>,
          <<"U+D803", "U+DCA8">>, <<"U+D803", "U+DCA9">>,
          <<"U+D803", "U+DCAA">>, <<"U+D803", "U+DCAB">>,
          <<"U+D803", "U+DCAC">>, <<"U+D803", "U+DCAD">>,
          <<"U+D803", "U+DCAE">>, <<"U+D803", "U+DCAF">>,
          <<"U+D803", "U+DCB0">>, <<"U+D803", "U+DCB1">>,
          <<"U+D803", "U+DCB2">>, <<"U+D803", "U+DCC0">>,
          <<"U+D803", "U+DCC1">>, <<"U+D803", "U+DCC2">>,
          <<"U+D803", "U+DCC3">>, <<"U+D803", "U+DCC4">>,
          <<"U+D803", "U+DCC5">>, <<"U+D803", "U+DCC6">>,
          <<"U+D803", "U+DCC7">>, <<"U+D803", "U+DCC8">>,
          <<"U+D803", "U+DCC9">>, <<"U+D803", "U+DCCA">>,
          <<"U+D803", "U+DCCB">>, <<"U+D803", "U+DCCC">>,
          <<"U+D803", "U+DCCD">>, <<"U+D803", "U+DCCE">>,
          <<"U+D803", "U+DCCF">>, <<"U+D803", "U+DCD0">>,
          <<"U+D803", "U+DCD1">>, <<"U+D803", "U+DCD2">>,
          <<"U+D803", "U+DCD3">>, <<"U+D803", "U+DCD4">>,
          <<"U+D803", "U+DCD5">>, <<"U+D803", "U+DCD6">>,
          <<"U+D803", "U+DCD7">>, <<"U+D803", "U+DCD8">>,
          <<"U+D803", "U+DCD9">>, <<"U+D803", "U+DCDA">>,
          <<"U+D803", "U+DCDB">>, <<"U+D803", "U+DCDC">>,
          <<"U+D803", "U+DCDD">>, <<"U+D803", "U+DCDE">>,
          <<"U+D803", "U+DCDF">>, <<"U+D803", "U+DCE0">>,
          <<"U+D803", "U+DCE1">>, <<"U+D803", "U+DCE2">>,
          <<"U+D803", "U+DCE3">>, <<"U+D803", "U+DCE4">>,
          <<"U+D803", "U+DCE5">>, <<"U+D803", "U+DCE6">>,
          <<"U+D803", "U+DCE7">>, <<"U+D803", "U+DCE8">>,
          <<"U+D803", "U+DCE9">>, <<"U+D803", "U+DCEA">>,
          <<"U+D803", "U+DCEB">>, <<"U+D803", "U+DCEC">>,
          <<"U+D803", "U+DCED">>, <<"U+D803", "U+DCEE">>,
          <<"U+D803", "U+DCEF">>, <<"U+D803", "U+DCF0">>,
          <<"U+D803", "U+DCF1">>, <<"U+D803", "U+DCF2">>,
          <<"U+D803", "U+DD50">>, <<"U+D803", "U+DD51">>,
          <<"U+D803", "U+DD52">>, <<"U+D803", "U+DD53">>,
          <<"U+D803", "U+DD54">>, <<"U+D803", "U+DD55">>,
          <<"U+D803", "U+DD56">>, <<"U+D803", "U+DD57">>,
          <<"U+D803", "U+DD58">>, <<"U+D803", "U+DD59">>,
          <<"U+D803", "U+DD5A">>, <<"U+D803", "U+DD5B">>,
          <<"U+D803", "U+DD5C">>, <<"U+D803", "U+DD5D">>,
          <<"U+D803", "U+DD5E">>, <<"U+D803", "U+DD5F">>,
          <<"U+D803", "U+DD60">>, <<"U+D803", "U+DD61">>,
          <<"U+D803", "U+DD62">>, <<"U+D803", "U+DD63">>,
          <<"U+D803", "U+DD64">>, <<"U+D803", "U+DD65">>,
          <<"U+D803", "U+DD70">>, <<"U+D803", "U+DD71">>,
          <<"U+D803", "U+DD72">>, <<"U+D803", "U+DD73">>,
          <<"U+D803", "U+DD74">>, <<"U+D803", "U+DD75">>,
          <<"U+D803", "U+DD76">>, <<"U+D803", "U+DD77">>,
          <<"U+D803", "U+DD78">>, <<"U+D803", "U+DD79">>,
          <<"U+D803", "U+DD7A">>, <<"U+D803", "U+DD7B">>,
          <<"U+D803", "U+DD7C">>, <<"U+D803", "U+DD7D">>,
          <<"U+D803", "U+DD7E">>, <<"U+D803", "U+DD7F">>,
          <<"U+D803", "U+DD80">>, <<"U+D803", "U+DD81">>,
          <<"U+D803", "U+DD82">>, <<"U+D803", "U+DD83">>,
          <<"U+D803", "U+DD84">>, <<"U+D803", "U+DD85">>,
          <<"U+D806", "U+DCA0">>, <<"U+D806", "U+DCA1">>,
          <<"U+D806", "U+DCA2">>, <<"U+D806", "U+DCA3">>,
          <<"U+D806", "U+DCA4">>, <<"U+D806", "U+DCA5">>,
          <<"U+D806", "U+DCA6">>, <<"U+D806", "U+DCA7">>,
          <<"U+D806", "U+DCA8">>, <<"U+D806", "U+DCA9">>,
          <<"U+D806", "U+DCAA">>, <<"U+D806", "U+DCAB">>,
          <<"U+D806", "U+DCAC">>, <<"U+D806", "U+DCAD">>,
          <<"U+D806", "U+DCAE">>, <<"U+D806", "U+DCAF">>,
          <<"U+D806", "U+DCB0">>, <<"U+D806", "U+DCB1">>,
          <<"U+D806", "U+DCB2">>, <<"U+D806", "U+DCB3">>,
          <<"U+D806", "U+DCB4">>, <<"U+D806", "U+DCB5">>,
          <<"U+D806", "U+DCB6">>, <<"U+D806", "U+DCB7">>,
          <<"U+D806", "U+DCB8">>, <<"U+D806", "U+DCB9">>,
          <<"U+D806", "U+DCBA">>, <<"U+D806", "U+DCBB">>,
          <<"U+D806", "U+DCBC">>, <<"U+D806", "U+DCBD">>,
          <<"U+D806", "U+DCBE">>, <<"U+D806", "U+DCBF">>,
          <<"U+D806", "U+DCC0">>, <<"U+D806", "U+DCC1">>,
          <<"U+D806", "U+DCC2">>, <<"U+D806", "U+DCC3">>,
          <<"U+D806", "U+DCC4">>, <<"U+D806", "U+DCC5">>,
          <<"U+D806", "U+DCC6">>, <<"U+D806", "U+DCC7">>,
          <<"U+D806", "U+DCC8">>, <<"U+D806", "U+DCC9">>,
          <<"U+D806", "U+DCCA">>, <<"U+D806", "U+DCCB">>,
          <<"U+D806", "U+DCCC">>, <<"U+D806", "U+DCCD">>,
          <<"U+D806", "U+DCCE">>, <<"U+D806", "U+DCCF">>,
          <<"U+D806", "U+DCD0">>, <<"U+D806", "U+DCD1">>,
          <<"U+D806", "U+DCD2">>, <<"U+D806", "U+DCD3">>,
          <<"U+D806", "U+DCD4">>, <<"U+D806", "U+DCD5">>,
          <<"U+D806", "U+DCD6">>, <<"U+D806", "U+DCD7">>,
          <<"U+D806", "U+DCD8">>, <<"U+D806", "U+DCD9">>,
          <<"U+D806", "U+DCDA">>, <<"U+D806", "U+DCDB">>,
          <<"U+D806", "U+DCDC">>, <<"U+D806", "U+DCDD">>,
          <<"U+D806", "U+DCDE">>, <<"U+D806", "U+DCDF">>,
          <<"U+D81B", "U+DE40">>, <<"U+D81B", "U+DE41">>,
          <<"U+D81B", "U+DE42">>, <<"U+D81B", "U+DE43">>,
          <<"U+D81B", "U+DE44">>, <<"U+D81B", "U+DE45">>,
          <<"U+D81B", "U+DE46">>, <<"U+D81B", "U+DE47">>,
          <<"U+D81B", "U+DE48">>, <<"U+D81B", "U+DE49">>,
          <<"U+D81B", "U+DE4A">>, <<"U+D81B", "U+DE4B">>,
          <<"U+D81B", "U+DE4C">>, <<"U+D81B", "U+DE4D">>,
          <<"U+D81B", "U+DE4E">>, <<"U+D81B", "U+DE4F">>,
          <<"U+D81B", "U+DE50">>, <<"U+D81B", "U+DE51">>,
          <<"U+D81B", "U+DE52">>, <<"U+D81B", "U+DE53">>,
          <<"U+D81B", "U+DE54">>, <<"U+D81B", "U+DE55">>,
          <<"U+D81B", "U+DE56">>, <<"U+D81B", "U+DE57">>,
          <<"U+D81B", "U+DE58">>, <<"U+D81B", "U+DE59">>,
          <<"U+D81B", "U+DE5A">>, <<"U+D81B", "U+DE5B">>,
          <<"U+D81B", "U+DE5C">>, <<"U+D81B", "U+DE5D">>,
          <<"U+D81B", "U+DE5E">>, <<"U+D81B", "U+DE5F">>,
          <<"U+D81B", "U+DE60">>, <<"U+D81B", "U+DE61">>,
          <<"U+D81B", "U+DE62">>, <<"U+D81B", "U+DE63">>,
          <<"U+D81B", "U+DE64">>, <<"U+D81B", "U+DE65">>,
          <<"U+D81B", "U+DE66">>, <<"U+D81B", "U+DE67">>,
          <<"U+D81B", "U+DE68">>, <<"U+D81B", "U+DE69">>,
          <<"U+D81B", "U+DE6A">>, <<"U+D81B", "U+DE6B">>,
          <<"U+D81B", "U+DE6C">>, <<"U+D81B", "U+DE6D">>,
          <<"U+D81B", "U+DE6E">>, <<"U+D81B", "U+DE6F">>,
          <<"U+D81B", "U+DE70">>, <<"U+D81B", "U+DE71">>,
          <<"U+D81B", "U+DE72">>, <<"U+D81B", "U+DE73">>,
          <<"U+D81B", "U+DE74">>, <<"U+D81B", "U+DE75">>,
          <<"U+D81B", "U+DE76">>, <<"U+D81B", "U+DE77">>,
          <<"U+D81B", "U+DE78">>, <<"U+D81B", "U+DE79">>,
          <<"U+D81B", "U+DE7A">>, <<"U+D81B", "U+DE7B">>,
          <<"U+D81B", "U+DE7C">>, <<"U+D81B", "U+DE7D">>,
          <<"U+D81B", "U+DE7E">>, <<"U+D81B", "U+DE7F">>,
          <<"U+D81B", "U+DEA0">>, <<"U+D81B", "U+DEA1">>,
          <<"U+D81B", "U+DEA2">>, <<"U+D81B", "U+DEA3">>,
          <<"U+D81B", "U+DEA4">>, <<"U+D81B", "U+DEA5">>,
          <<"U+D81B", "U+DEA6">>, <<"U+D81B", "U+DEA7">>,
          <<"U+D81B", "U+DEA8">>, <<"U+D81B", "U+DEA9">>,
          <<"U+D81B", "U+DEAA">>, <<"U+D81B", "U+DEAB">>,
          <<"U+D81B", "U+DEAC">>, <<"U+D81B", "U+DEAD">>,
          <<"U+D81B", "U+DEAE">>, <<"U+D81B", "U+DEAF">>,
          <<"U+D81B", "U+DEB0">>, <<"U+D81B", "U+DEB1">>,
          <<"U+D81B", "U+DEB2">>, <<"U+D81B", "U+DEB3">>,
          <<"U+D81B", "U+DEB4">>, <<"U+D81B", "U+DEB5">>,
          <<"U+D81B", "U+DEB6">>, <<"U+D81B", "U+DEB7">>,
          <<"U+D81B", "U+DEB8">>, <<"U+D81B", "U+DEBB">>,
          <<"U+D81B", "U+DEBC">>, <<"U+D81B", "U+DEBD">>,
          <<"U+D81B", "U+DEBE">>, <<"U+D81B", "U+DEBF">>,
          <<"U+D81B", "U+DEC0">>, <<"U+D81B", "U+DEC1">>,
          <<"U+D81B", "U+DEC2">>, <<"U+D81B", "U+DEC3">>,
          <<"U+D81B", "U+DEC4">>, <<"U+D81B", "U+DEC5">>,
          <<"U+D81B", "U+DEC6">>, <<"U+D81B", "U+DEC7">>,
          <<"U+D81B", "U+DEC8">>, <<"U+D81B", "U+DEC9">>,
          <<"U+D81B", "U+DECA">>, <<"U+D81B", "U+DECB">>,
          <<"U+D81B", "U+DECC">>, <<"U+D81B", "U+DECD">>,
          <<"U+D81B", "U+DECE">>, <<"U+D81B", "U+DECF">>,
          <<"U+D81B", "U+DED0">>, <<"U+D81B", "U+DED1">>,
          <<"U+D81B", "U+DED2">>, <<"U+D81B", "U+DED3">>,
          <<"U+D835", "U+DC00">>, <<"U+D835", "U+DC01">>,
          <<"U+D835", "U+DC02">>, <<"U+D835", "U+DC03">>,
          <<"U+D835", "U+DC04">>, <<"U+D835", "U+DC05">>,
          <<"U+D835", "U+DC06">>, <<"U+D835", "U+DC07">>,
          <<"U+D835", "U+DC08">>, <<"U+D835", "U+DC09">>,
          <<"U+D835", "U+DC0A">>, <<"U+D835", "U+DC0B">>,
          <<"U+D835", "U+DC0C">>, <<"U+D835", "U+DC0D">>,
          <<"U+D835", "U+DC0E">>, <<"U+D835", "U+DC0F">>,
          <<"U+D835", "U+DC10">>, <<"U+D835", "U+DC11">>,
          <<"U+D835", "U+DC12">>, <<"U+D835", "U+DC13">>,
          <<"U+D835", "U+DC14">>, <<"U+D835", "U+DC15">>,
          <<"U+D835", "U+DC16">>, <<"U+D835", "U+DC17">>,
          <<"U+D835", "U+DC18">>, <<"U+D835", "U+DC19">>,
          <<"U+D835", "U+DC1A">>, <<"U+D835", "U+DC1B">>,
          <<"U+D835", "U+DC1C">>, <<"U+D835", "U+DC1D">>,
          <<"U+D835", "U+DC1E">>, <<"U+D835", "U+DC1F">>,
          <<"U+D835", "U+DC20">>, <<"U+D835", "U+DC21">>,
          <<"U+D835", "U+DC22">>, <<"U+D835", "U+DC23">>,
          <<"U+D835", "U+DC24">>, <<"U+D835", "U+DC25">>,
          <<"U+D835", "U+DC26">>, <<"U+D835", "U+DC27">>,
          <<"U+D835", "U+DC28">>, <<"U+D835", "U+DC29">>,
          <<"U+D835", "U+DC2A">>, <<"U+D835", "U+DC2B">>,
          <<"U+D835", "U+DC2C">>, <<"U+D835", "U+DC2D">>,
          <<"U+D835", "U+DC2E">>, <<"U+D835", "U+DC2F">>,
          <<"U+D835", "U+DC30">>, <<"U+D835", "U+DC31">>,
          <<"U+D835", "U+DC32">>, <<"U+D835", "U+DC33">>,
          <<"U+D835", "U+DC34">>, <<"U+D835", "U+DC35">>,
          <<"U+D835", "U+DC36">>, <<"U+D835", "U+DC37">>,
          <<"U+D835", "U+DC38">>, <<"U+D835", "U+DC39">>,
          <<"U+D835", "U+DC3A">>, <<"U+D835", "U+DC3B">>,
          <<"U+D835", "U+DC3C">>, <<"U+D835", "U+DC3D">>,
          <<"U+D835", "U+DC3E">>, <<"U+D835", "U+DC3F">>,
          <<"U+D835", "U+DC40">>, <<"U+D835", "U+DC41">>,
          <<"U+D835", "U+DC42">>, <<"U+D835", "U+DC43">>,
          <<"U+D835", "U+DC44">>, <<"U+D835", "U+DC45">>,
          <<"U+D835", "U+DC46">>, <<"U+D835", "U+DC47">>,
          <<"U+D835", "U+DC48">>, <<"U+D835", "U+DC49">>,
          <<"U+D835", "U+DC4A">>, <<"U+D835", "U+DC4B">>,
          <<"U+D835", "U+DC4C">>, <<"U+D835", "U+DC4D">>,
          <<"U+D835", "U+DC4E">>, <<"U+D835", "U+DC4F">>,
          <<"U+D835", "U+DC50">>, <<"U+D835", "U+DC51">>,
          <<"U+D835", "U+DC52">>, <<"U+D835", "U+DC53">>,
          <<"U+D835", "U+DC54">>, <<"U+D835", "U+DC56">>,
          <<"U+D835", "U+DC57">>, <<"U+D835", "U+DC58">>,
          <<"U+D835", "U+DC59">>, <<"U+D835", "U+DC5A">>,
          <<"U+D835", "U+DC5B">>, <<"U+D835", "U+DC5C">>,
          <<"U+D835", "U+DC5D">>, <<"U+D835", "U+DC5E">>,
          <<"U+D835", "U+DC5F">>, <<"U+D835", "U+DC60">>,
          <<"U+D835", "U+DC61">>, <<"U+D835", "U+DC62">>,
          <<"U+D835", "U+DC63">>, <<"U+D835", "U+DC64">>,
          <<"U+D835", "U+DC65">>, <<"U+D835", "U+DC66">>,
          <<"U+D835", "U+DC67">>, <<"U+D835", "U+DC68">>,
          <<"U+D835", "U+DC69">>, <<"U+D835", "U+DC6A">>,
          <<"U+D835", "U+DC6B">>, <<"U+D835", "U+DC6C">>,
          <<"U+D835", "U+DC6D">>, <<"U+D835", "U+DC6E">>,
          <<"U+D835", "U+DC6F">>, <<"U+D835", "U+DC70">>,
          <<"U+D835", "U+DC71">>, <<"U+D835", "U+DC72">>,
          <<"U+D835", "U+DC73">>, <<"U+D835", "U+DC74">>,
          <<"U+D835", "U+DC75">>, <<"U+D835", "U+DC76">>,
          <<"U+D835", "U+DC77">>, <<"U+D835", "U+DC78">>,
          <<"U+D835", "U+DC79">>, <<"U+D835", "U+DC7A">>,
          <<"U+D835", "U+DC7B">>, <<"U+D835", "U+DC7C">>,
          <<"U+D835", "U+DC7D">>, <<"U+D835", "U+DC7E">>,
          <<"U+D835", "U+DC7F">>, <<"U+D835", "U+DC80">>,
          <<"U+D835", "U+DC81">>, <<"U+D835", "U+DC82">>,
          <<"U+D835", "U+DC83">>, <<"U+D835", "U+DC84">>,
          <<"U+D835", "U+DC85">>, <<"U+D835", "U+DC86">>,
          <<"U+D835", "U+DC87">>, <<"U+D835", "U+DC88">>,
          <<"U+D835", "U+DC89">>, <<"U+D835", "U+DC8A">>,
          <<"U+D835", "U+DC8B">>, <<"U+D835", "U+DC8C">>,
          <<"U+D835", "U+DC8D">>, <<"U+D835", "U+DC8E">>,
          <<"U+D835", "U+DC8F">>, <<"U+D835", "U+DC90">>,
          <<"U+D835", "U+DC91">>, <<"U+D835", "U+DC92">>,
          <<"U+D835", "U+DC93">>, <<"U+D835", "U+DC94">>,
          <<"U+D835", "U+DC95">>, <<"U+D835", "U+DC96">>,
          <<"U+D835", "U+DC97">>, <<"U+D835", "U+DC98">>,
          <<"U+D835", "U+DC99">>, <<"U+D835", "U+DC9A">>,
          <<"U+D835", "U+DC9B">>, <<"U+D835", "U+DC9C">>,
          <<"U+D835", "U+DC9E">>, <<"U+D835", "U+DC9F">>,
          <<"U+D835", "U+DCA2">>, <<"U+D835", "U+DCA5">>,
          <<"U+D835", "U+DCA6">>, <<"U+D835", "U+DCA9">>,
          <<"U+D835", "U+DCAA">>, <<"U+D835", "U+DCAB">>,
          <<"U+D835", "U+DCAC">>, <<"U+D835", "U+DCAE">>,
          <<"U+D835", "U+DCAF">>, <<"U+D835", "U+DCB0">>,
          <<"U+D835", "U+DCB1">>, <<"U+D835", "U+DCB2">>,
          <<"U+D835", "U+DCB3">>, <<"U+D835", "U+DCB4">>,
          <<"U+D835", "U+DCB5">>, <<"U+D835", "U+DCB6">>,
          <<"U+D835", "U+DCB7">>, <<"U+D835", "U+DCB8">>,
          <<"U+D835", "U+DCB9">>, <<"U+D835", "U+DCBB">>,
          <<"U+D835", "U+DCBD">>, <<"U+D835", "U+DCBE">>,
          <<"U+D835", "U+DCBF">>, <<"U+D835", "U+DCC0">>,
          <<"U+D835", "U+DCC1">>, <<"U+D835", "U+DCC2">>,
          <<"U+D835", "U+DCC3">>, <<"U+D835", "U+DCC5">>,
          <<"U+D835", "U+DCC6">>, <<"U+D835", "U+DCC7">>,
          <<"U+D835", "U+DCC8">>, <<"U+D835", "U+DCC9">>,
          <<"U+D835", "U+DCCA">>, <<"U+D835", "U+DCCB">>,
          <<"U+D835", "U+DCCC">>, <<"U+D835", "U+DCCD">>,
          <<"U+D835", "U+DCCE">>, <<"U+D835", "U+DCCF">>,
          <<"U+D835", "U+DCD0">>, <<"U+D835", "U+DCD1">>,
          <<"U+D835", "U+DCD2">>, <<"U+D835", "U+DCD3">>,
          <<"U+D835", "U+DCD4">>, <<"U+D835", "U+DCD5">>,
          <<"U+D835", "U+DCD6">>, <<"U+D835", "U+DCD7">>,
          <<"U+D835", "U+DCD8">>, <<"U+D835", "U+DCD9">>,
          <<"U+D835", "U+DCDA">>, <<"U+D835", "U+DCDB">>,
          <<"U+D835", "U+DCDC">>, <<"U+D835", "U+DCDD">>,
          <<"U+D835", "U+DCDE">>, <<"U+D835", "U+DCDF">>,
          <<"U+D835", "U+DCE0">>, <<"U+D835", "U+DCE1">>,
          <<"U+D835", "U+DCE2">>, <<"U+D835", "U+DCE3">>,
          <<"U+D835", "U+DCE4">>, <<"U+D835", "U+DCE5">>,
          <<"U+D835", "U+DCE6">>, <<"U+D835", "U+DCE7">>,
          <<"U+D835", "U+DCE8">>, <<"U+D835", "U+DCE9">>,
          <<"U+D835", "U+DCEA">>, <<"U+D835", "U+DCEB">>,
          <<"U+D835", "U+DCEC">>, <<"U+D835", "U+DCED">>,
          <<"U+D835", "U+DCEE">>, <<"U+D835", "U+DCEF">>,
          <<"U+D835", "U+DCF0">>, <<"U+D835", "U+DCF1">>,
          <<"U+D835", "U+DCF2">>, <<"U+D835", "U+DCF3">>,
          <<"U+D835", "U+DCF4">>, <<"U+D835", "U+DCF5">>,
          <<"U+D835", "U+DCF6">>, <<"U+D835", "U+DCF7">>,
          <<"U+D835", "U+DCF8">>, <<"U+D835", "U+DCF9">>,
          <<"U+D835", "U+DCFA">>, <<"U+D835", "U+DCFB">>,
          <<"U+D835", "U+DCFC">>, <<"U+D835", "U+DCFD">>,
          <<"U+D835", "U+DCFE">>, <<"U+D835", "U+DCFF">>,
          <<"U+D835", "U+DD00">>, <<"U+D835", "U+DD01">>,
          <<"U+D835", "U+DD02">>, <<"U+D835", "U+DD03">>,
          <<"U+D835", "U+DD04">>, <<"U+D835", "U+DD05">>,
          <<"U+D835", "U+DD07">>, <<"U+D835", "U+DD08">>,
          <<"U+D835", "U+DD09">>, <<"U+D835", "U+DD0A">>,
          <<"U+D835", "U+DD0D">>, <<"U+D835", "U+DD0E">>,
          <<"U+D835", "U+DD0F">>, <<"U+D835", "U+DD10">>,
          <<"U+D835", "U+DD11">>, <<"U+D835", "U+DD12">>,
          <<"U+D835", "U+DD13">>, <<"U+D835", "U+DD14">>,
          <<"U+D835", "U+DD16">>, <<"U+D835", "U+DD17">>,
          <<"U+D835", "U+DD18">>, <<"U+D835", "U+DD19">>,
          <<"U+D835", "U+DD1A">>, <<"U+D835", "U+DD1B">>,
          <<"U+D835", "U+DD1C">>, <<"U+D835", "U+DD1E">>,
          <<"U+D835", "U+DD1F">>, <<"U+D835", "U+DD20">>,
          <<"U+D835", "U+DD21">>, <<"U+D835", "U+DD22">>,
          <<"U+D835", "U+DD23">>, <<"U+D835", "U+DD24">>,
          <<"U+D835", "U+DD25">>, <<"U+D835", "U+DD26">>,
          <<"U+D835", "U+DD27">>, <<"U+D835", "U+DD28">>,
          <<"U+D835", "U+DD29">>, <<"U+D835", "U+DD2A">>,
          <<"U+D835", "U+DD2B">>, <<"U+D835", "U+DD2C">>,
          <<"U+D835", "U+DD2D">>, <<"U+D835", "U+DD2E">>,
          <<"U+D835", "U+DD2F">>, <<"U+D835", "U+DD30">>,
          <<"U+D835", "U+DD31">>, <<"U+D835", "U+DD32">>,
          <<"U+D835", "U+DD33">>, <<"U+D835", "U+DD34">>,
          <<"U+D835", "U+DD35">>, <<"U+D835", "U+DD36">>,
          <<"U+D835", "U+DD37">>, <<"U+D835", "U+DD38">>,
          <<"U+D835", "U+DD39">>, <<"U+D835", "U+DD3B">>,
          <<"U+D835", "U+DD3C">>, <<"U+D835", "U+DD3D">>,
          <<"U+D835", "U+DD3E">>, <<"U+D835", "U+DD40">>,
          <<"U+D835", "U+DD41">>, <<"U+D835", "U+DD42">>,
          <<"U+D835", "U+DD43">>, <<"U+D835", "U+DD44">>,
          <<"U+D835", "U+DD46">>, <<"U+D835", "U+DD4A">>,
          <<"U+D835", "U+DD4B">>, <<"U+D835", "U+DD4C">>,
          <<"U+D835", "U+DD4D">>, <<"U+D835", "U+DD4E">>,
          <<"U+D835", "U+DD4F">>, <<"U+D835", "U+DD50">>,
          <<"U+D835", "U+DD52">>, <<"U+D835", "U+DD53">>,
          <<"U+D835", "U+DD54">>, <<"U+D835", "U+DD55">>,
          <<"U+D835", "U+DD56">>, <<"U+D835", "U+DD57">>,
          <<"U+D835", "U+DD58">>, <<"U+D835", "U+DD59">>,
          <<"U+D835", "U+DD5A">>, <<"U+D835", "U+DD5B">>,
          <<"U+D835", "U+DD5C">>, <<"U+D835", "U+DD5D">>,
          <<"U+D835", "U+DD5E">>, <<"U+D835", "U+DD5F">>,
          <<"U+D835", "U+DD60">>, <<"U+D835", "U+DD61">>,
          <<"U+D835", "U+DD62">>, <<"U+D835", "U+DD63">>,
          <<"U+D835", "U+DD64">>, <<"U+D835", "U+DD65">>,
          <<"U+D835", "U+DD66">>, <<"U+D835", "U+DD67">>,
          <<"U+D835", "U+DD68">>, <<"U+D835", "U+DD69">>,
          <<"U+D835", "U+DD6A">>, <<"U+D835", "U+DD6B">>,
          <<"U+D835", "U+DD6C">>, <<"U+D835", "U+DD6D">>,
          <<"U+D835", "U+DD6E">>, <<"U+D835", "U+DD6F">>,
          <<"U+D835", "U+DD70">>, <<"U+D835", "U+DD71">>,
          <<"U+D835", "U+DD72">>, <<"U+D835", "U+DD73">>,
          <<"U+D835", "U+DD74">>, <<"U+D835", "U+DD75">>,
          <<"U+D835", "U+DD76">>, <<"U+D835", "U+DD77">>,
          <<"U+D835", "U+DD78">>, <<"U+D835", "U+DD79">>,
          <<"U+D835", "U+DD7A">>, <<"U+D835", "U+DD7B">>,
          <<"U+D835", "U+DD7C">>, <<"U+D835", "U+DD7D">>,
          <<"U+D835", "U+DD7E">>, <<"U+D835", "U+DD7F">>,
          <<"U+D835", "U+DD80">>, <<"U+D835", "U+DD81">>,
          <<"U+D835", "U+DD82">>, <<"U+D835", "U+DD83">>,
          <<"U+D835", "U+DD84">>, <<"U+D835", "U+DD85">>,
          <<"U+D835", "U+DD86">>, <<"U+D835", "U+DD87">>,
          <<"U+D835", "U+DD88">>, <<"U+D835", "U+DD89">>,
          <<"U+D835", "U+DD8A">>, <<"U+D835", "U+DD8B">>,
          <<"U+D835", "U+DD8C">>, <<"U+D835", "U+DD8D">>,
          <<"U+D835", "U+DD8E">>, <<"U+D835", "U+DD8F">>,
          <<"U+D835", "U+DD90">>, <<"U+D835", "U+DD91">>,
          <<"U+D835", "U+DD92">>, <<"U+D835", "U+DD93">>,
          <<"U+D835", "U+DD94">>, <<"U+D835", "U+DD95">>,
          <<"U+D835", "U+DD96">>, <<"U+D835", "U+DD97">>,
          <<"U+D835", "U+DD98">>, <<"U+D835", "U+DD99">>,
          <<"U+D835", "U+DD9A">>, <<"U+D835", "U+DD9B">>,
          <<"U+D835", "U+DD9C">>, <<"U+D835", "U+DD9D">>,
          <<"U+D835", "U+DD9E">>, <<"U+D835", "U+DD9F">>,
          <<"U+D835", "U+DDA0">>, <<"U+D835", "U+DDA1">>,
          <<"U+D835", "U+DDA2">>, <<"U+D835", "U+DDA3">>,
          <<"U+D835", "U+DDA4">>, <<"U+D835", "U+DDA5">>,
          <<"U+D835", "U+DDA6">>, <<"U+D835", "U+DDA7">>,
          <<"U+D835", "U+DDA8">>, <<"U+D835", "U+DDA9">>,
          <<"U+D835", "U+DDAA">>, <<"U+D835", "U+DDAB">>,
          <<"U+D835", "U+DDAC">>, <<"U+D835", "U+DDAD">>,
          <<"U+D835", "U+DDAE">>, <<"U+D835", "U+DDAF">>,
          <<"U+D835", "U+DDB0">>, <<"U+D835", "U+DDB1">>,
          <<"U+D835", "U+DDB2">>, <<"U+D835", "U+DDB3">>,
          <<"U+D835", "U+DDB4">>, <<"U+D835", "U+DDB5">>,
          <<"U+D835", "U+DDB6">>, <<"U+D835", "U+DDB7">>,
          <<"U+D835", "U+DDB8">>, <<"U+D835", "U+DDB9">>,
          <<"U+D835", "U+DDBA">>, <<"U+D835", "U+DDBB">>,
          <<"U+D835", "U+DDBC">>, <<"U+D835", "U+DDBD">>,
          <<"U+D835", "U+DDBE">>, <<"U+D835", "U+DDBF">>,
          <<"U+D835", "U+DDC0">>, <<"U+D835", "U+DDC1">>,
          <<"U+D835", "U+DDC2">>, <<"U+D835", "U+DDC3">>,
          <<"U+D835", "U+DDC4">>, <<"U+D835", "U+DDC5">>,
          <<"U+D835", "U+DDC6">>, <<"U+D835", "U+DDC7">>,
          <<"U+D835", "U+DDC8">>, <<"U+D835", "U+DDC9">>,
          <<"U+D835", "U+DDCA">>, <<"U+D835", "U+DDCB">>,
          <<"U+D835", "U+DDCC">>, <<"U+D835", "U+DDCD">>,
          <<"U+D835", "U+DDCE">>, <<"U+D835", "U+DDCF">>,
          <<"U+D835", "U+DDD0">>, <<"U+D835", "U+DDD1">>,
          <<"U+D835", "U+DDD2">>, <<"U+D835", "U+DDD3">>,
          <<"U+D835", "U+DDD4">>, <<"U+D835", "U+DDD5">>,
          <<"U+D835", "U+DDD6">>, <<"U+D835", "U+DDD7">>,
          <<"U+D835", "U+DDD8">>, <<"U+D835", "U+DDD9">>,
          <<"U+D835", "U+DDDA">>, <<"U+D835", "U+DDDB">>,
          <<"U+D835", "U+DDDC">>, <<"U+D835", "U+DDDD">>,
          <<"U+D835", "U+DDDE">>, <<"U+D835", "U+DDDF">>,
          <<"U+D835", "U+DDE0">>, <<"U+D835", "U+DDE1">>,
          <<"U+D835", "U+DDE2">>, <<"U+D835", "U+DDE3">>,
          <<"U+D835", "U+DDE4">>, <<"U+D835", "U+DDE5">>,
          <<"U+D835", "U+DDE6">>, <<"U+D835", "U+DDE7">>,
          <<"U+D835", "U+DDE8">>, <<"U+D835", "U+DDE9">>,
          <<"U+D835", "U+DDEA">>, <<"U+D835", "U+DDEB">>,
          <<"U+D835", "U+DDEC">>, <<"U+D835", "U+DDED">>,
          <<"U+D835", "U+DDEE">>, <<"U+D835", "U+DDEF">>,
          <<"U+D835", "U+DDF0">>, <<"U+D835", "U+DDF1">>,
          <<"U+D835", "U+DDF2">>, <<"U+D835", "U+DDF3">>,
          <<"U+D835", "U+DDF4">>, <<"U+D835", "U+DDF5">>,
          <<"U+D835", "U+DDF6">>, <<"U+D835", "U+DDF7">>,
          <<"U+D835", "U+DDF8">>, <<"U+D835", "U+DDF9">>,
          <<"U+D835", "U+DDFA">>, <<"U+D835", "U+DDFB">>,
          <<"U+D835", "U+DDFC">>, <<"U+D835", "U+DDFD">>,
          <<"U+D835", "U+DDFE">>, <<"U+D835", "U+DDFF">>,
          <<"U+D835", "U+DE00">>, <<"U+D835", "U+DE01">>,
          <<"U+D835", "U+DE02">>, <<"U+D835", "U+DE03">>,
          <<"U+D835", "U+DE04">>, <<"U+D835", "U+DE05">>,
          <<"U+D835", "U+DE06">>, <<"U+D835", "U+DE07">>,
          <<"U+D835", "U+DE08">>, <<"U+D835", "U+DE09">>,
          <<"U+D835", "U+DE0A">>, <<"U+D835", "U+DE0B">>,
          <<"U+D835", "U+DE0C">>, <<"U+D835", "U+DE0D">>,
          <<"U+D835", "U+DE0E">>, <<"U+D835", "U+DE0F">>,
          <<"U+D835", "U+DE10">>, <<"U+D835", "U+DE11">>,
          <<"U+D835", "U+DE12">>, <<"U+D835", "U+DE13">>,
          <<"U+D835", "U+DE14">>, <<"U+D835", "U+DE15">>,
          <<"U+D835", "U+DE16">>, <<"U+D835", "U+DE17">>,
          <<"U+D835", "U+DE18">>, <<"U+D835", "U+DE19">>,
          <<"U+D835", "U+DE1A">>, <<"U+D835", "U+DE1B">>,
          <<"U+D835", "U+DE1C">>, <<"U+D835", "U+DE1D">>,
          <<"U+D835", "U+DE1E">>, <<"U+D835", "U+DE1F">>,
          <<"U+D835", "U+DE20">>, <<"U+D835", "U+DE21">>,
          <<"U+D835", "U+DE22">>, <<"U+D835", "U+DE23">>,
          <<"U+D835", "U+DE24">>, <<"U+D835", "U+DE25">>,
          <<"U+D835", "U+DE26">>, <<"U+D835", "U+DE27">>,
          <<"U+D835", "U+DE28">>, <<"U+D835", "U+DE29">>,
          <<"U+D835", "U+DE2A">>, <<"U+D835", "U+DE2B">>,
          <<"U+D835", "U+DE2C">>, <<"U+D835", "U+DE2D">>,
          <<"U+D835", "U+DE2E">>, <<"U+D835", "U+DE2F">>,
          <<"U+D835", "U+DE30">>, <<"U+D835", "U+DE31">>,
          <<"U+D835", "U+DE32">>, <<"U+D835", "U+DE33">>,
          <<"U+D835", "U+DE34">>, <<"U+D835", "U+DE35">>,
          <<"U+D835", "U+DE36">>, <<"U+D835", "U+DE37">>,
          <<"U+D835", "U+DE38">>, <<"U+D835", "U+DE39">>,
          <<"U+D835", "U+DE3A">>, <<"U+D835", "U+DE3B">>,
          <<"U+D835", "U+DE3C">>, <<"U+D835", "U+DE3D">>,
          <<"U+D835", "U+DE3E">>, <<"U+D835", "U+DE3F">>,
          <<"U+D835", "U+DE40">>, <<"U+D835", "U+DE41">>,
          <<"U+D835", "U+DE42">>, <<"U+D835", "U+DE43">>,
          <<"U+D835", "U+DE44">>, <<"U+D835", "U+DE45">>,
          <<"U+D835", "U+DE46">>, <<"U+D835", "U+DE47">>,
          <<"U+D835", "U+DE48">>, <<"U+D835", "U+DE49">>,
          <<"U+D835", "U+DE4A">>, <<"U+D835", "U+DE4B">>,
          <<"U+D835", "U+DE4C">>, <<"U+D835", "U+DE4D">>,
          <<"U+D835", "U+DE4E">>, <<"U+D835", "U+DE4F">>,
          <<"U+D835", "U+DE50">>, <<"U+D835", "U+DE51">>,
          <<"U+D835", "U+DE52">>, <<"U+D835", "U+DE53">>,
          <<"U+D835", "U+DE54">>, <<"U+D835", "U+DE55">>,
          <<"U+D835", "U+DE56">>, <<"U+D835", "U+DE57">>,
          <<"U+D835", "U+DE58">>, <<"U+D835", "U+DE59">>,
          <<"U+D835", "U+DE5A">>, <<"U+D835", "U+DE5B">>,
          <<"U+D835", "U+DE5C">>, <<"U+D835", "U+DE5D">>,
          <<"U+D835", "U+DE5E">>, <<"U+D835", "U+DE5F">>,
          <<"U+D835", "U+DE60">>, <<"U+D835", "U+DE61">>,
          <<"U+D835", "U+DE62">>, <<"U+D835", "U+DE63">>,
          <<"U+D835", "U+DE64">>, <<"U+D835", "U+DE65">>,
          <<"U+D835", "U+DE66">>, <<"U+D835", "U+DE67">>,
          <<"U+D835", "U+DE68">>, <<"U+D835", "U+DE69">>,
          <<"U+D835", "U+DE6A">>, <<"U+D835", "U+DE6B">>,
          <<"U+D835", "U+DE6C">>, <<"U+D835", "U+DE6D">>,
          <<"U+D835", "U+DE6E">>, <<"U+D835", "U+DE6F">>,
          <<"U+D835", "U+DE70">>, <<"U+D835", "U+DE71">>,
          <<"U+D835", "U+DE72">>, <<"U+D835", "U+DE73">>,
          <<"U+D835", "U+DE74">>, <<"U+D835", "U+DE75">>,
          <<"U+D835", "U+DE76">>, <<"U+D835", "U+DE77">>,
          <<"U+D835", "U+DE78">>, <<"U+D835", "U+DE79">>,
          <<"U+D835", "U+DE7A">>, <<"U+D835", "U+DE7B">>,
          <<"U+D835", "U+DE7C">>, <<"U+D835", "U+DE7D">>,
          <<"U+D835", "U+DE7E">>, <<"U+D835", "U+DE7F">>,
          <<"U+D835", "U+DE80">>, <<"U+D835", "U+DE81">>,
          <<"U+D835", "U+DE82">>, <<"U+D835", "U+DE83">>,
          <<"U+D835", "U+DE84">>, <<"U+D835", "U+DE85">>,
          <<"U+D835", "U+DE86">>, <<"U+D835", "U+DE87">>,
          <<"U+D835", "U+DE88">>, <<"U+D835", "U+DE89">>,
          <<"U+D835", "U+DE8A">>, <<"U+D835", "U+DE8B">>,
          <<"U+D835", "U+DE8C">>, <<"U+D835", "U+DE8D">>,
          <<"U+D835", "U+DE8E">>, <<"U+D835", "U+DE8F">>,
          <<"U+D835", "U+DE90">>, <<"U+D835", "U+DE91">>,
          <<"U+D835", "U+DE92">>, <<"U+D835", "U+DE93">>,
          <<"U+D835", "U+DE94">>, <<"U+D835", "U+DE95">>,
          <<"U+D835", "U+DE96">>, <<"U+D835", "U+DE97">>,
          <<"U+D835", "U+DE98">>, <<"U+D835", "U+DE99">>,
          <<"U+D835", "U+DE9A">>, <<"U+D835", "U+DE9B">>,
          <<"U+D835", "U+DE9C">>, <<"U+D835", "U+DE9D">>,
          <<"U+D835", "U+DE9E">>, <<"U+D835", "U+DE9F">>,
          <<"U+D835", "U+DEA0">>, <<"U+D835", "U+DEA1">>,
          <<"U+D835", "U+DEA2">>, <<"U+D835", "U+DEA3">>,
          <<"U+D835", "U+DEA4">>, <<"U+D835", "U+DEA5">>,
          <<"U+D835", "U+DEA8">>, <<"U+D835", "U+DEA9">>,
          <<"U+D835", "U+DEAA">>, <<"U+D835", "U+DEAB">>,
          <<"U+D835", "U+DEAC">>, <<"U+D835", "U+DEAD">>,
          <<"U+D835", "U+DEAE">>, <<"U+D835", "U+DEAF">>,
          <<"U+D835", "U+DEB0">>, <<"U+D835", "U+DEB1">>,
          <<"U+D835", "U+DEB2">>, <<"U+D835", "U+DEB3">>,
          <<"U+D835", "U+DEB4">>, <<"U+D835", "U+DEB5">>,
          <<"U+D835", "U+DEB6">>, <<"U+D835", "U+DEB7">>,
          <<"U+D835", "U+DEB8">>, <<"U+D835", "U+DEB9">>,
          <<"U+D835", "U+DEBA">>, <<"U+D835", "U+DEBB">>,
          <<"U+D835", "U+DEBC">>, <<"U+D835", "U+DEBD">>,
          <<"U+D835", "U+DEBE">>, <<"U+D835", "U+DEBF">>,
          <<"U+D835", "U+DEC0">>, <<"U+D835", "U+DEC2">>,
          <<"U+D835", "U+DEC3">>, <<"U+D835", "U+DEC4">>,
          <<"U+D835", "U+DEC5">>, <<"U+D835", "U+DEC6">>,
          <<"U+D835", "U+DEC7">>, <<"U+D835", "U+DEC8">>,
          <<"U+D835", "U+DEC9">>, <<"U+D835", "U+DECA">>,
          <<"U+D835", "U+DECB">>, <<"U+D835", "U+DECC">>,
          <<"U+D835", "U+DECD">>, <<"U+D835", "U+DECE">>,
          <<"U+D835", "U+DECF">>, <<"U+D835", "U+DED0">>,
          <<"U+D835", "U+DED1">>, <<"U+D835", "U+DED2">>,
          <<"U+D835", "U+DED3">>, <<"U+D835", "U+DED4">>,
          <<"U+D835", "U+DED5">>, <<"U+D835", "U+DED6">>,
          <<"U+D835", "U+DED7">>, <<"U+D835", "U+DED8">>,
          <<"U+D835", "U+DED9">>, <<"U+D835", "U+DEDA">>,
          <<"U+D835", "U+DEDC">>, <<"U+D835", "U+DEDD">>,
          <<"U+D835", "U+DEDE">>, <<"U+D835", "U+DEDF">>,
          <<"U+D835", "U+DEE0">>, <<"U+D835", "U+DEE1">>,
          <<"U+D835", "U+DEE2">>, <<"U+D835", "U+DEE3">>,
          <<"U+D835", "U+DEE4">>, <<"U+D835", "U+DEE5">>,
          <<"U+D835", "U+DEE6">>, <<"U+D835", "U+DEE7">>,
          <<"U+D835", "U+DEE8">>, <<"U+D835", "U+DEE9">>,
          <<"U+D835", "U+DEEA">>, <<"U+D835", "U+DEEB">>,
          <<"U+D835", "U+DEEC">>, <<"U+D835", "U+DEED">>,
          <<"U+D835", "U+DEEE">>, <<"U+D835", "U+DEEF">>,
          <<"U+D835", "U+DEF0">>, <<"U+D835", "U+DEF1">>,
          <<"U+D835", "U+DEF2">>, <<"U+D835", "U+DEF3">>,
          <<"U+D835", "U+DEF4">>, <<"U+D835", "U+DEF5">>,
          <<"U+D835", "U+DEF6">>, <<"U+D835", "U+DEF7">>,
          <<"U+D835", "U+DEF8">>, <<"U+D835", "U+DEF9">>,
          <<"U+D835", "U+DEFA">>, <<"U+D835", "U+DEFC">>,
          <<"U+D835", "U+DEFD">>, <<"U+D835", "U+DEFE">>,
          <<"U+D835", "U+DEFF">>, <<"U+D835", "U+DF00">>,
          <<"U+D835", "U+DF01">>, <<"U+D835", "U+DF02">>,
          <<"U+D835", "U+DF03">>, <<"U+D835", "U+DF04">>,
          <<"U+D835", "U+DF05">>, <<"U+D835", "U+DF06">>,
          <<"U+D835", "U+DF07">>, <<"U+D835", "U+DF08">>,
          <<"U+D835", "U+DF09">>, <<"U+D835", "U+DF0A">>,
          <<"U+D835", "U+DF0B">>, <<"U+D835", "U+DF0C">>,
          <<"U+D835", "U+DF0D">>, <<"U+D835", "U+DF0E">>,
          <<"U+D835", "U+DF0F">>, <<"U+D835", "U+DF10">>,
          <<"U+D835", "U+DF11">>, <<"U+D835", "U+DF12">>,
          <<"U+D835", "U+DF13">>, <<"U+D835", "U+DF14">>,
          <<"U+D835", "U+DF16">>, <<"U+D835", "U+DF17">>,
          <<"U+D835", "U+DF18">>, <<"U+D835", "U+DF19">>,
          <<"U+D835", "U+DF1A">>, <<"U+D835", "U+DF1B">>,
          <<"U+D835", "U+DF1C">>, <<"U+D835", "U+DF1D">>,
          <<"U+D835", "U+DF1E">>, <<"U+D835", "U+DF1F">>,
          <<"U+D835", "U+DF20">>, <<"U+D835", "U+DF21">>,
          <<"U+D835", "U+DF22">>, <<"U+D835", "U+DF23">>,
          <<"U+D835", "U+DF24">>, <<"U+D835", "U+DF25">>,
          <<"U+D835", "U+DF26">>, <<"U+D835", "U+DF27">>,
          <<"U+D835", "U+DF28">>, <<"U+D835", "U+DF29">>,
          <<"U+D835", "U+DF2A">>, <<"U+D835", "U+DF2B">>,
          <<"U+D835", "U+DF2C">>, <<"U+D835", "U+DF2D">>,
          <<"U+D835", "U+DF2E">>, <<"U+D835", "U+DF2F">>,
          <<"U+D835", "U+DF30">>, <<"U+D835", "U+DF31">>,
          <<"U+D835", "U+DF32">>, <<"U+D835", "U+DF33">>,
          <<"U+D835", "U+DF34">>, <<"U+D835", "U+DF36">>,
          <<"U+D835", "U+DF37">>, <<"U+D835", "U+DF38">>,
          <<"U+D835", "U+DF39">>, <<"U+D835", "U+DF3A">>,
          <<"U+D835", "U+DF3B">>, <<"U+D835", "U+DF3C">>,
          <<"U+D835", "U+DF3D">>, <<"U+D835", "U+DF3E">>,
          <<"U+D835", "U+DF3F">>, <<"U+D835", "U+DF40">>,
          <<"U+D835", "U+DF41">>, <<"U+D835", "U+DF42">>,
          <<"U+D835", "U+DF43">>, <<"U+D835", "U+DF44">>,
          <<"U+D835", "U+DF45">>, <<"U+D835", "U+DF46">>,
          <<"U+D835", "U+DF47">>, <<"U+D835", "U+DF48">>,
          <<"U+D835", "U+DF49">>, <<"U+D835", "U+DF4A">>,
          <<"U+D835", "U+DF4B">>, <<"U+D835", "U+DF4C">>,
          <<"U+D835", "U+DF4D">>, <<"U+D835", "U+DF4E">>,
          <<"U+D835", "U+DF50">>, <<"U+D835", "U+DF51">>,
          <<"U+D835", "U+DF52">>, <<"U+D835", "U+DF53">>,
          <<"U+D835", "U+DF54">>, <<"U+D835", "U+DF55">>,
          <<"U+D835", "U+DF56">>, <<"U+D835", "U+DF57">>,
          <<"U+D835", "U+DF58">>, <<"U+D835", "U+DF59">>,
          <<"U+D835", "U+DF5A">>, <<"U+D835", "U+DF5B">>,
          <<"U+D835", "U+DF5C">>, <<"U+D835", "U+DF5D">>,
          <<"U+D835", "U+DF5E">>, <<"U+D835", "U+DF5F">>,
          <<"U+D835", "U+DF60">>, <<"U+D835", "U+DF61">>,
          <<"U+D835", "U+DF62">>, <<"U+D835", "U+DF63">>,
          <<"U+D835", "U+DF64">>, <<"U+D835", "U+DF65">>,
          <<"U+D835", "U+DF66">>, <<"U+D835", "U+DF67">>,
          <<"U+D835", "U+DF68">>, <<"U+D835", "U+DF69">>,
          <<"U+D835", "U+DF6A">>, <<"U+D835", "U+DF6B">>,
          <<"U+D835", "U+DF6C">>, <<"U+D835", "U+DF6D">>,
          <<"U+D835", "U+DF6E">>, <<"U+D835", "U+DF70">>,
          <<"U+D835", "U+DF71">>, <<"U+D835", "U+DF72">>,
          <<"U+D835", "U+DF73">>, <<"U+D835", "U+DF74">>,
          <<"U+D835", "U+DF75">>, <<"U+D835", "U+DF76">>,
          <<"U+D835", "U+DF77">>, <<"U+D835", "U+DF78">>,
          <<"U+D835", "U+DF79">>, <<"U+D835", "U+DF7A">>,
          <<"U+D835", "U+DF7B">>, <<"U+D835", "U+DF7C">>,
          <<"U+D835", "U+DF7D">>, <<"U+D835", "U+DF7E">>,
          <<"U+D835", "U+DF7F">>, <<"U+D835", "U+DF80">>,
          <<"U+D835", "U+DF81">>, <<"U+D835", "U+DF82">>,
          <<"U+D835", "U+DF83">>, <<"U+D835", "U+DF84">>,
          <<"U+D835", "U+DF85">>, <<"U+D835", "U+DF86">>,
          <<"U+D835", "U+DF87">>, <<"U+D835", "U+DF88">>,
          <<"U+D835", "U+DF8A">>, <<"U+D835", "U+DF8B">>,
          <<"U+D835", "U+DF8C">>, <<"U+D835", "U+DF8D">>,
          <<"U+D835", "U+DF8E">>, <<"U+D835", "U+DF8F">>,
          <<"U+D835", "U+DF90">>, <<"U+D835", "U+DF91">>,
          <<"U+D835", "U+DF92">>, <<"U+D835", "U+DF93">>,
          <<"U+D835", "U+DF94">>, <<"U+D835", "U+DF95">>,
          <<"U+D835", "U+DF96">>, <<"U+D835", "U+DF97">>,
          <<"U+D835", "U+DF98">>, <<"U+D835", "U+DF99">>,
          <<"U+D835", "U+DF9A">>, <<"U+D835", "U+DF9B">>,
          <<"U+D835", "U+DF9C">>, <<"U+D835", "U+DF9D">>,
          <<"U+D835", "U+DF9E">>, <<"U+D835", "U+DF9F">>,
          <<"U+D835", "U+DFA0">>, <<"U+D835", "U+DFA1">>,
          <<"U+D835", "U+DFA2">>, <<"U+D835", "U+DFA3">>,
          <<"U+D835", "U+DFA4">>, <<"U+D835", "U+DFA5">>,
          <<"U+D835", "U+DFA6">>, <<"U+D835", "U+DFA7">>,
          <<"U+D835", "U+DFA8">>, <<"U+D835", "U+DFAA">>,
          <<"U+D835", "U+DFAB">>, <<"U+D835", "U+DFAC">>,
          <<"U+D835", "U+DFAD">>, <<"U+D835", "U+DFAE">>,
          <<"U+D835", "U+DFAF">>, <<"U+D835", "U+DFB0">>,
          <<"U+D835", "U+DFB1">>, <<"U+D835", "U+DFB2">>,
          <<"U+D835", "U+DFB3">>, <<"U+D835", "U+DFB4">>,
          <<"U+D835", "U+DFB5">>, <<"U+D835", "U+DFB6">>,
          <<"U+D835", "U+DFB7">>, <<"U+D835", "U+DFB8">>,
          <<"U+D835", "U+DFB9">>, <<"U+D835", "U+DFBA">>,
          <<"U+D835", "U+DFBB">>, <<"U+D835", "U+DFBC">>,
          <<"U+D835", "U+DFBD">>, <<"U+D835", "U+DFBE">>,
          <<"U+D835", "U+DFBF">>, <<"U+D835", "U+DFC0">>,
          <<"U+D835", "U+DFC1">>, <<"U+D835", "U+DFC2">>,
          <<"U+D835", "U+DFC4">>, <<"U+D835", "U+DFC5">>,
          <<"U+D835", "U+DFC6">>, <<"U+D835", "U+DFC7">>,
          <<"U+D835", "U+DFC8">>, <<"U+D835", "U+DFC9">>,
          <<"U+D835", "U+DFCA">>, <<"U+D835", "U+DFCB">>,
          <<"U+D837", "U+DF00">>, <<"U+D837", "U+DF01">>,
          <<"U+D837", "U+DF02">>, <<"U+D837", "U+DF03">>,
          <<"U+D837", "U+DF04">>, <<"U+D837", "U+DF05">>,
          <<"U+D837", "U+DF06">>, <<"U+D837", "U+DF07">>,
          <<"U+D837", "U+DF08">>, <<"U+D837", "U+DF09">>,
          <<"U+D837", "U+DF0B">>, <<"U+D837", "U+DF0C">>,
          <<"U+D837", "U+DF0D">>, <<"U+D837", "U+DF0E">>,
          <<"U+D837", "U+DF0F">>, <<"U+D837", "U+DF10">>,
          <<"U+D837", "U+DF11">>, <<"U+D837", "U+DF12">>,
          <<"U+D837", "U+DF13">>, <<"U+D837", "U+DF14">>,
          <<"U+D837", "U+DF15">>, <<"U+D837", "U+DF16">>,
          <<"U+D837", "U+DF17">>, <<"U+D837", "U+DF18">>,
          <<"U+D837", "U+DF19">>, <<"U+D837", "U+DF1A">>,
          <<"U+D837", "U+DF1B">>, <<"U+D837", "U+DF1C">>,
          <<"U+D837", "U+DF1D">>, <<"U+D837", "U+DF1E">>,
          <<"U+D837", "U+DF25">>, <<"U+D837", "U+DF26">>,
          <<"U+D837", "U+DF27">>, <<"U+D837", "U+DF28">>,
          <<"U+D837", "U+DF29">>, <<"U+D837", "U+DF2A">>,
          <<"U+D83A", "U+DD00">>, <<"U+D83A", "U+DD01">>,
          <<"U+D83A", "U+DD02">>, <<"U+D83A", "U+DD03">>,
          <<"U+D83A", "U+DD04">>, <<"U+D83A", "U+DD05">>,
          <<"U+D83A", "U+DD06">>, <<"U+D83A", "U+DD07">>,
          <<"U+D83A", "U+DD08">>, <<"U+D83A", "U+DD09">>,
          <<"U+D83A", "U+DD0A">>, <<"U+D83A", "U+DD0B">>,
          <<"U+D83A", "U+DD0C">>, <<"U+D83A", "U+DD0D">>,
          <<"U+D83A", "U+DD0E">>, <<"U+D83A", "U+DD0F">>,
          <<"U+D83A", "U+DD10">>, <<"U+D83A", "U+DD11">>,
          <<"U+D83A", "U+DD12">>, <<"U+D83A", "U+DD13">>,
          <<"U+D83A", "U+DD14">>, <<"U+D83A", "U+DD15">>,
          <<"U+D83A", "U+DD16">>, <<"U+D83A", "U+DD17">>,
          <<"U+D83A", "U+DD18">>, <<"U+D83A", "U+DD19">>,
          <<"U+D83A", "U+DD1A">>, <<"U+D83A", "U+DD1B">>,
          <<"U+D83A", "U+DD1C">>, <<"U+D83A", "U+DD1D">>,
          <<"U+D83A", "U+DD1E">>, <<"U+D83A", "U+DD1F">>,
          <<"U+D83A", "U+DD20">>, <<"U+D83A", "U+DD21">>,
          <<"U+D83A", "U+DD22">>, <<"U+D83A", "U+DD23">>,
          <<"U+D83A", "U+DD24">>, <<"U+D83A", "U+DD25">>,
          <<"U+D83A", "U+DD26">>, <<"U+D83A", "U+DD27">>,
          <<"U+D83A", "U+DD28">>, <<"U+D83A", "U+DD29">>,
          <<"U+D83A", "U+DD2A">>, <<"U+D83A", "U+DD2B">>,
          <<"U+D83A", "U+DD2C">>, <<"U+D83A", "U+DD2D">>,
          <<"U+D83A", "U+DD2E">>, <<"U+D83A", "U+DD2F">>,
          <<"U+D83A", "U+DD30">>, <<"U+D83A", "U+DD31">>,
          <<"U+D83A", "U+DD32">>, <<"U+D83A", "U+DD33">>,
          <<"U+D83A", "U+DD34">>, <<"U+D83A", "U+DD35">>,
          <<"U+D83A", "U+DD36">>, <<"U+D83A", "U+DD37">>,
          <<"U+D83A", "U+DD38">>, <<"U+D83A", "U+DD39">>,
          <<"U+D83A", "U+DD3A">>, <<"U+D83A", "U+DD3B">>,
          <<"U+D83A", "U+DD3C">>, <<"U+D83A", "U+DD3D">>,
          <<"U+D83A", "U+DD3E">>, <<"U+D83A", "U+DD3F">>,
          <<"U+D83A", "U+DD40">>, <<"U+D83A", "U+DD41">>,
          <<"U+D83A", "U+DD42">>, <<"U+D83A", "U+DD43">>,
          <<"U+D83C", "U+DD30">>, <<"U+D83C", "U+DD31">>,
          <<"U+D83C", "U+DD32">>, <<"U+D83C", "U+DD33">>,
          <<"U+D83C", "U+DD34">>, <<"U+D83C", "U+DD35">>,
          <<"U+D83C", "U+DD36">>, <<"U+D83C", "U+DD37">>,
          <<"U+D83C", "U+DD38">>, <<"U+D83C", "U+DD39">>,
          <<"U+D83C", "U+DD3A">>, <<"U+D83C", "U+DD3B">>,
          <<"U+D83C", "U+DD3C">>, <<"U+D83C", "U+DD3D">>,
          <<"U+D83C", "U+DD3E">>, <<"U+D83C", "U+DD3F">>,
          <<"U+D83C", "U+DD40">>, <<"U+D83C", "U+DD41">>,
          <<"U+D83C", "U+DD42">>, <<"U+D83C", "U+DD43">>,
          <<"U+D83C", "U+DD44">>, <<"U+D83C", "U+DD45">>,
          <<"U+D83C", "U+DD46">>, <<"U+D83C", "U+DD47">>,
          <<"U+D83C", "U+DD48">>, <<"U+D83C", "U+DD49">>,
          <<"U+D83C", "U+DD50">>, <<"U+D83C", "U+DD51">>,
          <<"U+D83C", "U+DD52">>, <<"U+D83C", "U+DD53">>,
          <<"U+D83C", "U+DD54">>, <<"U+D83C", "U+DD55">>,
          <<"U+D83C", "U+DD56">>, <<"U+D83C", "U+DD57">>,
          <<"U+D83C", "U+DD58">>, <<"U+D83C", "U+DD59">>,
          <<"U+D83C", "U+DD5A">>, <<"U+D83C", "U+DD5B">>,
          <<"U+D83C", "U+DD5C">>, <<"U+D83C", "U+DD5D">>,
          <<"U+D83C", "U+DD5E">>, <<"U+D83C", "U+DD5F">>,
          <<"U+D83C", "U+DD60">>, <<"U+D83C", "U+DD61">>,
          <<"U+D83C", "U+DD62">>, <<"U+D83C", "U+DD63">>,
          <<"U+D83C", "U+DD64">>, <<"U+D83C", "U+DD65">>,
          <<"U+D83C", "U+DD66">>, <<"U+D83C", "U+DD67">>,
          <<"U+D83C", "U+DD68">>, <<"U+D83C", "U+DD69">>,
          <<"U+D83C", "U+DD70">>, <<"U+D83C", "U+DD71">>,
          <<"U+D83C", "U+DD72">>, <<"U+D83C", "U+DD73">>,
          <<"U+D83C", "U+DD74">>, <<"U+D83C", "U+DD75">>,
          <<"U+D83C", "U+DD76">>, <<"U+D83C", "U+DD77">>,
          <<"U+D83C", "U+DD78">>, <<"U+D83C", "U+DD79">>,
          <<"U+D83C", "U+DD7A">>, <<"U+D83C", "U+DD7B">>,
          <<"U+D83C", "U+DD7C">>, <<"U+D83C", "U+DD7D">>,
          <<"U+D83C", "U+DD7E">>, <<"U+D83C", "U+DD7F">>,
          <<"U+D83C", "U+DD80">>, <<"U+D83C", "U+DD81">>,
          <<"U+D83C", "U+DD82">>, <<"U+D83C", "U+DD83">>,
          <<"U+D83C", "U+DD84">>, <<"U+D83C", "U+DD85">>,
          <<"U+D83C", "U+DD86">>, <<"U+D83C", "U+DD87">>,
          <<"U+D83C", "U+DD88">>, <<"U+D83C", "U+DD89">> }

\* the code points with the property Case_Ignorable of Unicode 17.0
\* (DerivedCoreProperties.txt)
CaseIgnorable ==
    { <<c>> : c \in
        { "'", ".", ":", "^", "U+0060", "¨", "­", "¯", "´", "·", "¸", "ʰ",
          "ʱ", "ʲ", "ʳ", "ʴ", "ʵ", "ʶ", "ʷ", "ʸ", "ʹ", "ʺ", "ʻ", "ʼ", "ʽ",
          "ʾ", "ʿ", "ˀ", "ˁ", "˂", "˃", "˄", "˅", "ˆ", "ˇ", "ˈ", "ˉ", "ˊ",
          "ˋ", "ˌ", "ˍ", "ˎ", "ˏ", "ː", "ˑ", "˒", "˓", "˔", "˕", "˖", "˗",
          "˘", "˙", "˚", "˛", "˜", "˝", "˞", "˟", "ˠ", "ˡ", "ˢ", "ˣ", "ˤ",
          "˥", "˦", "˧", "˨", "˩", "˪", "˫", "ˬ", "˭", "ˮ", "˯", "˰", "˱",
          "˲", "˳", "˴", "˵", "˶", "˷", "˸", "˹", "˺", "˻", "˼", "˽", "˾",
          "˿", "U+0300", "U+0301", "U+0302", "U+0303", "U+0304", "U+0305",
          "U+0306", "U+0307", "U+0308", "U+0309", "U+030A", "U+030B",
          "U+030C", "U+030D", "U+030E", "U+030F", "U+0310", "U+0311",
          "U+0312", "U+0313", "U+0314", "U+0315", "U+0316", "U+0317",
          "U+0318", "U+0319", "U+031A", "U+031B", "U+031C", "U+031D",
          "U+031E", "U+031F", "U+0320", "U+0321", "U+0322", "U+0323",
          "U+0324", "U+0325", "U+0326", "U+0327", "U+0328", "U+0329",
          "U+032A", "U+032B", "U+032C", "U+032D", "U+032E", "U+032F",
          "U+0330", "U+0331", "U+0332", "U+0333", "U+0334", "U+0335",
          "U+0336", "U+0337", "U+0338", "U+0339", "U+033A", "U+033B",
          "U+033C", "U+033D", "U+033E", "U+033F", "U+0340", "U+0341",
          "U+0342", "U+0343", "U+0344", "U+0345", "U+0346", "U+0347",
          "U+0348", "U+0349", "U+034A", "U+034B", "U+034C", "U+034D",
          "U+034E", "U+034F", "U+0350", "U+0351", "U+0352", "U+0353",
          "U+0354", "U+0355", "U+0356", "U+0357", "U+0358", "U+0359",
          "U+035A", "U+035B", "U+035C", "U+035D", "U+035E", "U+035F",
          "U+0360", "U+0361", "U+0362", "U+0363", "U+0364", "U+0365",
          "U+0366", "U+0367", "U+0368", "U+0369", "U+036A", "U+036B",
          "U+036C", "U+036D", "U+036E", "U+036F", "U+0374", "U+0375",
          "U+037A", "΄", "΅", "·", "҃", "҄", "҅", "҆", "҇", "҈", "҉",
          "U+0559", "U+055F", "֑", "֒", "֓", "֔", "֕", "֖", "֗", "֘", "֙",
          "֚", "֛", "֜", "֝", "֞", "֟", "֠", "֡", "֢", "֣", "֤", "֥", "֦",
          "֧", "֨", "֩", "֪", "֫", "֬", "֭", "֮", "֯", "ְ", "ֱ", "ֲ", "ֳ",
          "ִ", "ֵ", "ֶ", "ַ", "ָ", "ֹ", "ֺ", "ֻ", "ּ", "ֽ", "ֿ", "ׁ", "ׂ",
          "ׄ", "ׅ", "ׇ", "״", "U+0600", "U+0601", "U+0602", "U+0603",
          "U+0604", "U+0605", "U+0610", "U+0611", "U+0612", "U+0613",
          "U+0614", "U+0615", "U+0616", "U+0617", "U+0618", "U+0619",
          "U+061A", "U+061C", "U+0640", "U+064B", "U+064C", "U+064D",
          "U+064E", "U+064F", "U+0650", "U+0651", "U+0652", "U+0653",
          "U+0654", "U+0655", "U+0656", "U+0657", "U+0658", "U+0659",
          "U+065A", "U+065B", "U+065C", "U+065D", "U+065E", "U+065F",
          "U+0670", "ۖ", "ۗ", "ۘ", "ۙ", "ۚ", "ۛ", "ۜ", "۝", "۟", "۠", "ۡ",
          "ۢ", "ۣ", "ۤ", "ۥ", "ۦ", "ۧ", "ۨ", "۪", "۫", "۬", "ۭ", "U+070F",
          "U+0711", "U+0730", "U+0731", "U+0732", "U+0733", "U+0734",
          "U+0735", "U+0736", "U+0737", "U+0738", "U+0739", "U+073A",
          "U+073B", "U+073C", "U+073D", "U+073E", "U+073F", "U+0740",
          "U+0741", "U+0742", "U+0743", "U+0744", "U+0745", "U+0746",
          "U+0747", "U+0748", "U+0749", "U+074A", "ަ", "ާ", "ި", "ީ", "ު",
          "ޫ", "ެ", "ޭ", "ޮ", "ޯ", "ް", "߫", "߬", "߭", "߮", "߯", "߰", "߱",
          "߲", "߳", "ߴ", "ߵ", "ߺ", "߽", "U+0816", "U+0817", "U+0818",
          "U+0819", "U+081A", "U+081B", "U+081C", "U+081D", "U+081E",
          "U+081F", "U+0820", "U+0821", "U+0822", "U+0823", "U+0824",
          "U+0825", "U+0826", "U+0827", "U+0828", "U+0829", "U+082A",
          "U+082B", "U+082C", "U+082D", "U+0859", "U+085A", "U+085B", "࢈",
          "࢐", "࢑", "ࢗ", "࢘", "࢙", "࢚", "࢛", "࢜", "࢝", "࢞", "࢟", "ࣉ", "࣊",
          "࣋", "࣌", "࣍", "࣎", "࣏", "࣐", "࣑", "࣒", "࣓", "ࣔ", "ࣕ", "ࣖ", "ࣗ",
          "ࣘ", "ࣙ", "ࣚ", "ࣛ", "ࣜ", "ࣝ", "ࣞ", "ࣟ", "࣠", "࣡", "࣢", "ࣣ", "ࣤ",
          "ࣥ", "ࣦ", "ࣧ", "ࣨ", "ࣩ", "࣪", "࣫", "࣬", "࣭", "࣮", "࣯", "ࣰ", "ࣱ",
          "ࣲ", "ࣳ", "ࣴ", "ࣵ", "ࣶ", "ࣷ", "ࣸ", "ࣹ", "ࣺ", "ࣻ", "ࣼ", "ࣽ", "ࣾ",
          "ࣿ", "U+0900", "U+0901", "U+0902", "U+093A", "U+093C", "U+0941",
          "U+0942", "U+0943", "U+0944", "U+0945", "U+0946", "U+0947",
          "U+0948", "U+094D", "U+0951", "U+0952", "U+0953", "U+0954",
          "U+0955", "U+0956", "U+0957", "U+0962", "U+0963", "U+0971", "ঁ",
          "়", "ু", "ূ", "ৃ", "ৄ", "্", "ৢ", "ৣ", "৾", "U+0A01", "U+0A02",
          "U+0A3C", "U+0A41", "U+0A42", "U+0A47", "U+0A48", "U+0A4B",
          "U+0A4C", "U+0A4D", "U+0A51", "U+0A70", "U+0A71", "U+0A75", "ઁ",
          "ં", "઼", "ુ", "ૂ", "ૃ", "ૄ", "ૅ", "ે", "ૈ", "્", "ૢ", "ૣ", "ૺ",
          "ૻ", "ૼ", "૽", "૾", "૿", "U+0B01", "U+0B3C", "U+0B3F", "U+0B41",
          "U+0B42", "U+0B43", "U+0B44", "U+0B4D", "U+0B55", "U+0B56",
          "U+0B62", "U+0B63", "ஂ", "ீ", "்", "U+0C00", "U+0C04", "U+0C3C",
          "U+0C3E", "U+0C3F", "U+0C40", "U+0C46", "U+0C47", "U+0C48",
          "U+0C4A", "U+0C4B", "U+0C4C", "U+0C4D", "U+0C55", "U+0C56",
          "U+0C62", "U+0C63", "ಁ", "಼", "ಿ", "ೆ", "ೌ", "್", "ೢ", "ೣ",
          "U+0D00", "U+0D01", "U+0D3B", "U+0D3C", "U+0D41", "U+0D42",
          "U+0D43", "U+0D44", "U+0D4D", "U+0D62", "U+0D63", "ඁ", "්", "ි",
          "ී", "ු", "ූ", "U+0E31", "U+0E34", "U+0E35", "U+0E36", "U+0E37",
          "U+0E38", "U+0E39", "U+0E3A", "U+0E46", "U+0E47", "U+0E48",
          "U+0E49", "U+0E4A", "U+0E4B", "U+0E4C", "U+0E4D", "U+0E4E", "ັ",
          "ິ", "ີ", "ຶ", "ື", "ຸ", "ູ", "຺", "ົ", "ຼ", "ໆ", "່", "້", "໊",
          "໋", "໌", "ໍ", "໎", "U+0F18", "U+0F19", "U+0F35", "U+0F37",
          "U+0F39", "U+0F71", "U+0F72", "U+0F73", "U+0F74", "U+0F75",
          "U+0F76", "U+0F77", "U+0F78", "U+0F79", "U+0F7A", "U+0F7B",
          "U+0F7C", "U+0F7D", "U+0F7E", "ྀ", "ཱྀ", "ྂ", "ྃ", "྄", "྆", "྇",
          "ྍ", "ྎ", "ྏ", "ྐ", "ྑ", "ྒ", "ྒྷ", "ྔ", "ྕ", "ྖ", "ྗ", "ྙ", "ྚ",
          "ྛ", "ྜ", "ྜྷ", "ྞ", "ྟ", "ྠ", "ྡ", "ྡྷ", "ྣ", "ྤ", "ྥ", "ྦ", "ྦྷ",
          "ྨ", "ྩ", "ྪ", "ྫ", "ྫྷ", "ྭ", "ྮ", "ྯ", "ྰ", "ྱ", "ྲ", "ླ", "ྴ",
          "ྵ", "ྶ", "ྷ", "ྸ", "ྐྵ", "ྺ", "ྻ", "ྼ", "࿆", "U+102D", "U+102E",
          "U+102F", "U+1030", "U+1032", "U+1033", "U+1034", "U+1035",
          "U+1036", "U+1037", "U+1039", "U+103A", "U+103D", "U+103E",
          "U+1058", "U+1059", "U+105E", "U+105F", "U+1060", "U+1071",
          "U+1072", "U+1073", "U+1074", "ႂ", "ႅ", "ႆ", "ႍ", "ႝ", "ჼ",
          "U+135D", "U+135E", "U+135F", "U+1712", "U+1713", "U+1714",
          "U+1732", "U+1733", "U+1752", "U+1753", "U+1772", "U+1773", "឴",
          "឵", "ិ", "ី", "ឹ", "ឺ", "ុ", "ូ", "ួ", "ំ", "៉", "៊", "់", "៌",
          "៍", "៎", "៏", "័", "៑", "្", "៓", "ៗ", "៝", "U+180B", "U+180C",
          "U+180D", "U+180E", "U+180F", "U+1843", "ᢅ", "ᢆ", "ᢩ", "U+1920",
          "U+1921", "U+1922", "U+1927", "U+1928", "U+1932", "U+1939",
          "U+193A", "U+193B", "U+1A17", "U+1A18", "U+1A1B", "U+1A56",
          "U+1A58", "U+1A59", "U+1A5A", "U+1A5B", "U+1A5C", "U+1A5D",
          "U+1A5E", "U+1A60", "U+1A62", "U+1A65", "U+1A66", "U+1A67",
          "U+1A68", "U+1A69", "U+1A6A", "U+1A6B", "U+1A6C", "U+1A73",
          "U+1A74", "U+1A75", "U+1A76", "U+1A77", "U+1A78", "U+1A79",
          "U+1A7A", "U+1A7B", "U+1A7C", "U+1A7F", "ᪧ", "᪰", "᪱", "᪲", "᪳",
          "᪴", "᪵", "᪶", "᪷", "᪸", "᪹", "᪺", "᪻", "᪼", "᪽", "᪾", "ᪿ", "ᫀ",
          "᫁", "᫂", "᫃", "᫄", "᫅", "᫆", "᫇", "᫈", "᫉", "᫊", "᫋", "ᫌ", "ᫍ",
          "ᫎ", "᫏", "᫐", "᫑", "᫒", "᫓", "᫔", "᫕", "᫖", "᫗", "᫘", "᫙", "᫚",
          "᫛", "᫜", "᫝", "᫠", "᫡", "᫢", "᫣", "᫤", "᫥", "᫦", "᫧", "᫨", "᫩",
          "᫪", "᫫", "U+1B00", "U+1B01", "U+1B02", "U+1B03", "U+1B34",
          "U+1B36", "U+1B37", "U+1B38", "U+1B39", "U+1B3A", "U+1B3C",
          "U+1B42", "U+1B6B", "U+1B6C", "U+1B6D", "U+1B6E", "U+1B6F",
          "U+1B70", "U+1B71", "U+1B72", "U+1B73", "ᮀ", "ᮁ", "ᮢ", "ᮣ", "ᮤ",
          "ᮥ", "ᮨ", "ᮩ", "᮫", "ᮬ", "ᮭ", "᯦", "ᯨ", "ᯩ", "ᯭ", "ᯯ", "ᯰ", "ᯱ",
          "U+1C2C", "U+1C2D", "U+1C2E", "U+1C2F", "U+1C30", "U+1C31",
          "U+1C32", "U+1C33", "U+1C36", "U+1C37", "U+1C78", "U+1C79",
          "U+1C7A", "U+1C7B", "U+1C7C", "U+1C7D", "᳐", "᳑", "᳒", "᳔", "᳕",
          "᳖", "᳗", "᳘", "᳙", "᳚", "᳛", "᳜", "᳝", "᳞", "᳟", "᳠", "᳢", "᳣",
          "᳤", "᳥", "᳦", "᳧", "᳨", "᳭", "᳴", "᳸", "᳹", "U+1D2C", "U+1D2D",
          "U+1D2E", "U+1D2F", "U+1D30", "U+1D31", "U+1D32", "U+1D33",
          "U+1D34", "U+1D35", "U+1D36", "U+1D37", "U+1D38", "U+1D39",
          "U+1D3A", "U+1D3B", "U+1D3C", "U+1D3D", "U+1D3E", "U+1D3F",
          "U+1D40", "U+1D41", "U+1D42", "U+1D43", "U+1D44", "U+1D45",
          "U+1D46", "U+1D47", "U+1D48", "U+1D49", "U+1D4A", "U+1D4B",
          "U+1D4C", "U+1D4D", "U+1D4E", "U+1D4F", "U+1D50", "U+1D51",
          "U+1D52", "U+1D53", "U+1D54", "U+1D55", "U+1D56", "U+1D57",
          "U+1D58", "U+1D59", "U+1D5A", "U+1D5B", "U+1D5C", "U+1D5D",
          "U+1D5E", "U+1D5F", "U+1D60", "U+1D61", "U+1D62", "U+1D63",
          "U+1D64", "U+1D65", "U+1D66", "U+1D67", "U+1D68", "U+1D69",
          "U+1D6A", "U+1D78", "ᶛ", "ᶜ", "ᶝ", "ᶞ", "ᶟ", "ᶠ", "ᶡ", "ᶢ", "ᶣ",
          "ᶤ", "ᶥ", "ᶦ", "ᶧ", "ᶨ", "ᶩ", "ᶪ", "ᶫ", "ᶬ", "ᶭ", "ᶮ", "ᶯ", "ᶰ",
          "ᶱ", "ᶲ", "ᶳ", "ᶴ", "ᶵ", "ᶶ", "ᶷ", "ᶸ", "ᶹ", "ᶺ", "ᶻ", "ᶼ", "ᶽ",
          "ᶾ", "ᶿ", "᷀", "᷁", "᷂", "᷃", "᷄", "᷅", "᷆", "᷇", "᷈", "᷉", "᷊",
          "᷋", "᷌", "᷍", "᷎", "᷏", "᷐", "᷑", "᷒", "ᷓ", "ᷔ", "ᷕ", "ᷖ", "ᷗ",
          "ᷘ", "ᷙ", "ᷚ", "ᷛ", "ᷜ", "ᷝ", "ᷞ", "ᷟ", "ᷠ", "ᷡ", "ᷢ", "ᷣ", "ᷤ",
          "ᷥ", "ᷦ", "ᷧ", "ᷨ", "ᷩ", "ᷪ", "ᷫ", "ᷬ", "ᷭ", "ᷮ", "ᷯ", "ᷰ", "ᷱ",
          "ᷲ", "ᷳ", "ᷴ", "᷵", "᷶", "᷷", "᷸", "᷹", "᷺", "᷻", "᷼", "᷽", "᷾",
          "᷿", "᾽", "᾿", "῀", "῁", "῍", "῎", "῏", "῝", "῞", "῟", "῭", "΅",
          "`", "´", "῾", "U+200B", "U+200C", "U+200D", "U+200E", "U+200F",
          "U+2018", "U+2019", "U+2024", "U+2027", "U+202A", "U+202B",
          "U+202C", "U+202D", "U+202E", "U+2060", "U+2061", "U+2062",
          "U+2063", "U+2064", "U+2066", "U+2067", "U+2068", "U+2069",
          "U+206A", "U+206B", "U+206C", "U+206D", "U+206E", "U+206F",
          "U+2071", "U+207F", "ₐ", "ₑ", "ₒ", "ₓ", "ₔ", "ₕ", "ₖ", "ₗ", "ₘ",
          "ₙ", "ₚ", "ₛ", "ₜ", "⃐", "⃑", "⃒", "⃓", "⃔", "⃕", "⃖", "⃗", "⃘",
          "⃙", "⃚", "⃛", "⃜", "⃝", "⃞", "⃟", "⃠", "⃡", "⃢", "⃣", "⃤", "⃥",
          "⃦", "⃧", "⃨", "⃩", "⃪", "⃫", "⃬", "⃭", "⃮", "⃯", "⃰", "U+2C7C",
          "U+2C7D", "⳯", "⳰", "⳱", "U+2D6F", "U+2D7F", "ⷠ", "ⷡ", "ⷢ", "ⷣ",
          "ⷤ", "ⷥ", "ⷦ", "ⷧ", "ⷨ", "ⷩ", "ⷪ", "ⷫ", "ⷬ", "ⷭ", "ⷮ", "ⷯ", "ⷰ",
          "ⷱ", "ⷲ", "ⷳ", "ⷴ", "ⷵ", "ⷶ", "ⷷ", "ⷸ", "ⷹ", "ⷺ", "ⷻ", "ⷼ", "ⷽ",
          "ⷾ", "ⷿ", "U+2E2F", "U+3005", "U+302A", "U+302B", "U+302C",
          "U+302D", "U+3031", "U+3032", "U+3033", "U+3034", "U+3035",
          "U+303B", "゙", "゚", "゛", "゜", "ゝ", "ゞ", "ー", "ヽ", "ヾ", "U+A015",
          "ꓸ", "ꓹ", "ꓺ", "ꓻ", "ꓼ", "ꓽ", "U+A60C", "U+A66F", "U+A670",
          "U+A671", "U+A672", "U+A674", "U+A675", "U+A676", "U+A677",
          "U+A678", "U+A679", "U+A67A", "U+A67B", "U+A67C", "U+A67D",
          "U+A67F", "ꚜ", "ꚝ", "ꚞ", "ꚟ", "꛰", "꛱", "U+A700", "U+A701",
          "U+A702", "U+A703", "U+A704", "U+A705", "U+A706", "U+A707",
          "U+A708", "U+A709", "U+A70A", "U+A70B", "U+A70C", "U+A70D",
          "U+A70E", "U+A70F", "U+A710", "U+A711", "U+A712", "U+A713",
          "U+A714", "U+A715", "U+A716", "U+A717", "U+A718", "U+A719",
          "U+A71A", "U+A71B", "U+A71C", "U+A71D", "U+A71E", "U+A71F",
          "U+A720", "U+A721", "U+A770", "ꞈ", "꞉", "꞊", "꟱", "ꟲ", "ꟳ", "ꟴ",
          "ꟸ", "ꟹ", "U+A802", "U+A806", "U+A80B", "U+A825", "U+A826",
          "U+A82C", "꣄", "ꣅ", "꣠", "꣡", "꣢", "꣣", "꣤", "꣥", "꣦", "꣧", "꣨",
          "꣩", "꣪", "꣫", "꣬", "꣭", "꣮", "꣯", "꣰", "꣱", "ꣿ", "U+A926",
          "U+A927", "U+A928", "U+A929", "U+A92A", "U+A92B", "U+A92C",
          "U+A92D", "U+A947", "U+A948", "U+A949", "U+A94A", "U+A94B",
          "U+A94C", "U+A94D", "U+A94E", "U+A94F", "U+A950", "U+A951", "ꦀ",
          "ꦁ", "ꦂ", "꦳", "ꦶ", "ꦷ", "ꦸ", "ꦹ", "ꦼ", "ꦽ", "ꧏ", "ꧥ", "ꧦ",
          "U+AA29", "U+AA2A", "U+AA2B", "U+AA2C", "U+AA2D", "U+AA2E",
          "U+AA31", "U+AA32", "U+AA35", "U+AA36", "U+AA43", "U+AA4C",
          "U+AA70", "U+AA7C", "ꪰ", "ꪲ", "ꪳ", "ꪴ", "ꪷ", "ꪸ", "ꪾ", "꪿", "꫁",
          "ꫝ", "ꫬ", "ꫭ", "ꫳ", "ꫴ", "꫶", "U+AB5B", "U+AB5C", "U+AB5D",
          "U+AB5E", "U+AB5F", "U+AB69", "U+AB6A", "U+AB6B", "ꯥ", "ꯨ", "꯭",
          "U+FB1E", "﮲", "﮳", "﮴", "﮵", "﮶", "﮷", "﮸", "﮹", "﮺", "﮻", "﮼",
          "﮽", "﮾", "﮿", "﯀", "﯁", "﯂", "U+FE00", "U+FE01", "U+FE02",
          "U+FE03", "U+FE04", "U+FE05", "U+FE06", "U+FE07", "U+FE08",
          "U+FE09", "U+FE0A", "U+FE0B", "U+FE0C", "U+FE0D", "U+FE0E",
          "U+FE0F", "U+FE13", "U+FE20", "U+FE21", "U+FE22", "U+FE23",
          "U+FE24", "U+FE25", "U+FE26", "U+FE27", "U+FE28", "U+FE29",
          "U+FE2A", "U+FE2B", "U+FE2C", "U+FE2D", "U+FE2E", "U+FE2F",
          "U+FE52", "U+FE55", "﻿", "U+FF07", "U+FF0E", "U+FF1A", "U+FF3E",
          "U+FF40", "U+FF70", "ﾞ", "ﾟ", "￣", "￹", "￺", "￻" } }
        \cup
        { <<"U+D800", "U+DDFD">>, <<"U+D800", "U+DEE0">>,
          <<"U+D800", "U+DF76">>, <<"U+D800", "U+DF77">>,
          <<"U+D800", "U+DF78">>, <<"U+D800", "U+DF79">>,
          <<"U+D800", "U+DF7A">>, <<"U+D801", "U+DF80">>,
          <<"U+D801", "U+DF81">>, <<"U+D801", "U+DF82">>,
          <<"U+D801", "U+DF83">>, <<"U+D801", "U+DF84">>,
          <<"U+D801", "U+DF85">>, <<"U+D801", "U+DF87">>,
          <<"U+D801", "U+DF88">>, <<"U+D801", "U+DF89">>,
          <<"U+D801", "U+DF8A">>, <<"U+D801", "U+DF8B">>,
          <<"U+D801", "U+DF8C">>, <<"U+D801", "U+DF8D">>,
          <<"U+D801", "U+DF8E">>, <<"U+D801", "U+DF8F">>,
          <<"U+D801", "U+DF90">>, <<"U+D801", "U+DF91">>,
          <<"U+D801", "U+DF92">>, <<"U+D801", "U+DF93">>,
          <<"U+D801", "U+DF94">>, <<"U+D801", "U+DF95">>,
          <<"U+D801", "U+DF96">>, <<"U+D801", "U+DF97">>,
          <<"U+D801", "U+DF98">>, <<"U+D801", "U+DF99">>,
          <<"U+D801", "U+DF9A">>, <<"U+D801", "U+DF9B">>,
          <<"U+D801", "U+DF9C">>, <<"U+D801", "U+DF9D">>,
          <<"U+D801", "U+DF9E">>, <<"U+D801", "U+DF9F">>,
          <<"U+D801", "U+DFA0">>, <<"U+D801", "U+DFA1">>,
          <<"U+D801", "U+DFA2">>, <<"U+D801", "U+DFA3">>,
          <<"U+D801", "U+DFA4">>, <<"U+D801", "U+DFA5">>,
          <<"U+D801", "U+DFA6">>, <<"U+D801", "U+DFA7">>,
          <<"U+D801", "U+DFA8">>, <<"U+D801", "U+DFA9">>,
          <<"U+D801", "U+DFAA">>, <<"U+D801", "U+DFAB">>,
          <<"U+D801", "U+DFAC">>, <<"U+D801", "U+DFAD">>,
          <<"U+D801", "U+DFAE">>, <<"U+D801", "U+DFAF">>,
          <<"U+D801", "U+DFB0">>, <<"U+D801", "U+DFB2">>,
          <<"U+D801", "U+DFB3">>, <<"U+D801", "U+DFB4">>,
          <<"U+D801", "U+DFB5">>, <<"U+D801", "U+DFB6">>,
          <<"U+D801", "U+DFB7">>, <<"U+D801", "U+DFB8">>,
          <<"U+D801", "U+DFB9">>, <<"U+D801", "U+DFBA">>,
          <<"U+D802", "U+DE01">>, <<"U+D802", "U+DE02">>,
          <<"U+D802", "U+DE03">>, <<"U+D802", "U+DE05">>,
          <<"U+D802", "U+DE06">>, <<"U+D802", "U+DE0C">>,
          <<"U+D802", "U+DE0D">>, <<"U+D802", "U+DE0E">>,
          <<"U+D802", "U+DE0F">>, <<"U+D802", "U+DE38">>,
          <<"U+D802", "U+DE39">>, <<"U+D802", "U+DE3A">>,
          <<"U+D802", "U+DE3F">>, <<"U+D802", "U+DEE5">>,
          <<"U+D802", "U+DEE6">>, <<"U+D803", "U+DD24">>,
          <<"U+D803", "U+DD25">>, <<"U+D803", "U+DD26">>,
          <<"U+D803", "U+DD27">>, <<"U+D803", "U+DD4E">>,
          <<"U+D803", "U+DD69">>, <<"U+D803", "U+DD6A">>,
          <<"U+D803", "U+DD6B">>, <<"U+D803", "U+DD6C">>,
          <<"U+D803", "U+DD6D">>, <<"U+D803", "U+DD6F">>,
          <<"U+D803", "U+DEAB">>, <<"U+D803", "U+DEAC">>,
          <<"U+D803", "U+DEC5">>, <<"U+D803", "U+DEFA">>,
          <<"U+D803", "U+DEFB">>, <<"U+D803", "U+DEFC">>,
          <<"U+D803", "U+DEFD">>, <<"U+D803", "U+DEFE">>,
          <<"U+D803", "U+DEFF">>, <<"U+D803", "U+DF46">>,
          <<"U+D803", "U+DF47">>, <<"U+D803", "U+DF48">>,
          <<"U+D803", "U+DF49">>, <<"U+D803", "U+DF4A">>,
          <<"U+D803", "U+DF4B">>, <<"U+D803", "U+DF4C">>,
          <<"U+D803", "U+DF4D">>, <<"U+D803", "U+DF4E">>,
          <<"U+D803", "U+DF4F">>, <<"U+D803", "U+DF50">>,
          <<"U+D803", "U+DF82">>, <<"U+D803", "U+DF83">>,
          <<"U+D803", "U+DF84">>, <<"U+D803", "U+DF85">>,
          <<"U+D804", "U+DC01">>, <<"U+D804", "U+DC38">>,
          <<"U+D804", "U+DC39">>, <<"U+D804", "U+DC3A">>,
          <<"U+D804", "U+DC3B">>, <<"U+D804", "U+DC3C">>,
          <<"U+D804", "U+DC3D">>, <<"U+D804", "U+DC3E">>,
          <<"U+D804", "U+DC3F">>, <<"U+D804", "U+DC40">>,
          <<"U+D804", "U+DC41">>, <<"U+D804", "U+DC42">>,
          <<"U+D804", "U+DC43">>, <<"U+D804", "U+DC44">>,
          <<"U+D804", "U+DC45">>, <<"U+D804", "U+DC46">>,
          <<"U+D804", "U+DC70">>, <<"U+D804", "U+DC73">>,
          <<"U+D804", "U+DC74">>, <<"U+D804", "U+DC7F">>,
          <<"U+D804", "U+DC80">>, <<"U+D804", "U+DC81">>,
          <<"U+D804", "U+DCB3">>, <<"U+D804", "U+DCB4">>,
          <<"U+D804", "U+DCB5">>, <<"U+D804", "U+DCB6">>,
          <<"U+D804", "U+DCB9">>, <<"U+D804", "U+DCBA">>,
          <<"U+D804", "U+DCBD">>, <<"U+D804", "U+DCC2">>,
          <<"U+D804", "U+DCCD">>, <<"U+D804", "U+DD00">>,
          <<"U+D804", "U+DD01">>, <<"U+D804", "U+DD02">>,
          <<"U+D804", "U+DD27">>, <<"U+D804", "U+DD28">>,
          <<"U+D804", "U+DD29">>, <<"U+D804", "U+DD2A">>,
          <<"U+D804", "U+DD2B">>, <<"U+D804", "U+DD2D">>,
          <<"U+D804", "U+DD2E">>, <<"U+D804", "U+DD2F">>,
          <<"U+D804", "U+DD30">>, <<"U+D804", "U+DD31">>,
          <<"U+D804", "U+DD32">>, <<"U+D804", "U+DD33">>,
          <<"U+D804", "U+DD34">>, <<"U+D804", "U+DD73">>,
          <<"U+D804", "U+DD80">>, <<"U+D804", "U+DD81">>,
          <<"U+D804", "U+DDB6">>, <<"U+D804", "U+DDB7">>,
          <<"U+D804", "U+DDB8">>, <<"U+D804", "U+DDB9">>,
          <<"U+D804", "U+DDBA">>, <<"U+D804", "U+DDBB">>,
          <<"U+D804", "U+DDBC">>, <<"U+D804", "U+DDBD">>,
          <<"U+D804", "U+DDBE">>, <<"U+D804", "U+DDC9">>,
          <<"U+D804", "U+DDCA">>, <<"U+D804", "U+DDCB">>,
          <<"U+D804", "U+DDCC">>, <<"U+D804", "U+DDCF">>,
          <<"U+D804", "U+DE2F">>, <<"U+D804", "U+DE30">>,
          <<"U+D804", "U+DE31">>, <<"U+D804", "U+DE34">>,
          <<"U+D804", "U+DE36">>, <<"U+D804", "U+DE37">>,
          <<"U+D804", "U+DE3E">>, <<"U+D804", "U+DE41">>,
          <<"U+D804", "U+DEDF">>, <<"U+D804", "U+DEE3">>,
          <<"U+D804", "U+DEE4">>, <<"U+D804", "U+DEE5">>,
          <<"U+D804", "U+DEE6">>, <<"U+D804", "U+DEE7">>,
          <<"U+D804", "U+DEE8">>, <<"U+D804", "U+DEE9">>,
          <<"U+D804", "U+DEEA">>, <<"U+D804", "U+DF00">>,
          <<"U+D804", "U+DF01">>, <<"U+D804", "U+DF3B">>,
          <<"U+D804", "U+DF3C">>, <<"U+D804", "U+DF40">>,
          <<"U+D804", "U+DF66">>, <<"U+D804", "U+DF67">>,
          <<"U+D804", "U+DF68">>, <<"U+D804", "U+DF69">>,
          <<"U+D804", "U+DF6A">>, <<"U+D804", "U+DF6B">>,
          <<"U+D804", "U+DF6C">>, <<"U+D804", "U+DF70">>,
          <<"U+D804", "U+DF71">>, <<"U+D804", "U+DF72">>,
          <<"U+D804", "U+DF73">>, <<"U+D804", "U+DF74">>,
          <<"U+D804", "U+DFBB">>, <<"U+D804", "U+DFBC">>,
          <<"U+D804", "U+DFBD">>, <<"U+D804", "U+DFBE">>,
          <<"U+D804", "U+DFBF">>, <<"U+D804", "U+DFC0">>,
          <<"U+D804", "U+DFCE">>, <<"U+D804", "U+DFD0">>,
          <<"U+D804", "U+DFD2">>, <<"U+D804", "U+DFE1">>,
          <<"U+D804", "U+DFE2">>, <<"U+D805", "U+DC38">>,
          <<"U+D805", "U+DC39">>, <<"U+D805", "U+DC3A">>,
          <<"U+D805", "U+DC3B">>, <<"U+D805", "U+DC3C">>,
          <<"U+D805", "U+DC3D">>, <<"U+D805", "U+DC3E">>,
          <<"U+D805", "U+DC3F">>, <<"U+D805", "U+DC42">>,
          <<"U+D805", "U+DC43">>, <<"U+D805", "U+DC44">>,
          <<"U+D805", "U+DC46">>, <<"U+D805", "U+DC5E">>,
          <<"U+D805", "U+DCB3">>, <<"U+D805", "U+DCB4">>,
          <<"U+D805", "U+DCB5">>, <<"U+D805", "U+DCB6">>,
          <<"U+D805", "U+DCB7">>, <<"U+D805", "U+DCB8">>,
          <<"U+D805", "U+DCBA">>, <<"U+D805", "U+DCBF">>,
          <<"U+D805", "U+DCC0">>, <<"U+D805", "U+DCC2">>,
          <<"U+D805", "U+DCC3">>, <<"U+D805", "U+DDB2">>,
          <<"U+D805", "U+DDB3">>, <<"U+D805", "U+DDB4">>,
          <<"U+D805", "U+DDB5">>, <<"U+D805", "U+DDBC">>,
          <<"U+D805", "U+DDBD">>, <<"U+D805", "U+DDBF">>,
          <<"U+D805", "U+DDC0">>, <<"U+D805", "U+DDDC">>,
          <<"U+D805", "U+DDDD">>, <<"U+D805", "U+DE33">>,
          <<"U+D805", "U+DE34">>, <<"U+D805", "U+DE35">>,
          <<"U+D805", "U+DE36">>, <<"U+D805", "U+DE37">>,
          <<"U+D805", "U+DE38">>, <<"U+D805", "U+DE39">>,
          <<"U+D805", "U+DE3A">>, <<"U+D805", "U+DE3D">>,
          <<"U+D805", "U+DE3F">>, <<"U+D805", "U+DE40">>,
          <<"U+D805", "U+DEAB">>, <<"U+D805", "U+DEAD">>,
          <<"U+D805", "U+DEB0">>, <<"U+D805", "U+DEB1">>,
          <<"U+D805", "U+DEB2">>, <<"U+D805", "U+DEB3">>,
          <<"U+D805", "U+DEB4">>, <<"U+D805", "U+DEB5">>,
          <<"U+D805", "U+DEB7">>, <<"U+D805", "U+DF1D">>,
          <<"U+D805", "U+DF1F">>, <<"U+D805", "U+DF22">>,
          <<"U+D805", "U+DF23">>, <<"U+D805", "U+DF24">>,
          <<"U+D805", "U+DF25">>, <<"U+D805", "U+DF27">>,
          <<"U+D805", "U+DF28">>, <<"U+D805", "U+DF29">>,
          <<"U+D805", "U+DF2A">>, <<"U+D805", "U+DF2B">>,
          <<"U+D806", "U+DC2F">>, <<"U+D806", "U+DC30">>,
          <<"U+D806", "U+DC31">>, <<"U+D806", "U+DC32">>,
          <<"U+D806", "U+DC33">>, <<"U+D806", "U+DC34">>,
          <<"U+D806", "U+DC35">>, <<"U+D806", "U+DC36">>,
          <<"U+D806", "U+DC37">>, <<"U+D806", "U+DC39">>,
          <<"U+D806", "U+DC3A">>, <<"U+D806", "U+DD3B">>,
          <<"U+D806", "U+DD3C">>, <<"U+D806", "U+DD3E">>,
          <<"U+D806", "U+DD43">>, <<"U+D806", "U+DDD4">>,
          <<"U+D806", "U+DDD5">>, <<"U+D806", "U+DDD6">>,
          <<"U+D806", "U+DDD7">>, <<"U+D806", "U+DDDA">>,
          <<"U+D806", "U+DDDB">>, <<"U+D806", "U+DDE0">>,
          <<"U+D806", "U+DE01">>, <<"U+D806", "U+DE02">>,
          <<"U+D806", "U+DE03">>, <<"U+D806", "U+DE04">>,
          <<"U+D806", "U+DE05">>, <<"U+D806", "U+DE06">>,
          <<"U+D806", "U+DE07">>, <<"U+D806", "U+DE08">>,
          <<"U+D806", "U+DE09">>, <<"U+D806", "U+DE0A">>,
          <<"U+D806", "U+DE33">>, <<"U+D806", "U+DE34">>,
          <<"U+D806", "U+DE35">>, <<"U+D806", "U+DE36">>,
          <<"U+D806", "U+DE37">>, <<"U+D806", "U+DE38">>,
          <<"U+D806", "U+DE3B">>, <<"U+D806", "U+DE3C">>,
          <<"U+D806", "U+DE3D">>, <<"U+D806", "U+DE3E">>,
          <<"U+D806", "U+DE47">>, <<"U+D806", "U+DE51">>,
          <<"U+D806", "U+DE52">>, <<"U+D806", "U+DE53">>,
          <<"U+D806", "U+DE54">>, <<"U+D806", "U+DE55">>,
          <<"U+D806", "U+DE56">>, <<"U+D806", "U+DE59">>,
          <<"U+D806", "U+DE5A">>, <<"U+D806", "U+DE5B">>,
          <<"U+D806", "U+DE8A">>, <<"U+D806", "U+DE8B">>,
          <<"U+D806", "U+DE8C">>, <<"U+D806", "U+DE8D">>,
          <<"U+D806", "U+DE8E">>, <<"U+D806", "U+DE8F">>,
          <<"U+D806", "U+DE90">>, <<"U+D806", "U+DE91">>,
          <<"U+D806", "U+DE92">>, <<"U+D806", "U+DE93">>,
          <<"U+D806", "U+DE94">>, <<"U+D806", "U+DE95">>,
          <<"U+D806", "U+DE96">>, <<"U+D806", "U+DE98">>,
          <<"U+D806", "U+DE99">>, <<"U+D806", "U+DF60">>,
          <<"U+D806", "U+DF62">>, <<"U+D806", "U+DF63">>,
          <<"U+D806", "U+DF64">>, <<"U+D806", "U+DF66">>,
          <<"U+D807", "U+DC30">>, <<"U+D807", "U+DC31">>,
          <<"U+D807", "U+DC32">>, <<"U+D807", "U+DC33">>,
          <<"U+D807", "U+DC34">>, <<"U+D807", "U+DC35">>,
          <<"U+D807", "U+DC36">>, <<"U+D807", "U+DC38">>,
          <<"U+D807", "U+DC39">>, <<"U+D807", "U+DC3A">>,
          <<"U+D807", "U+DC3B">>, <<"U+D807", "U+DC3C">>,
          <<"U+D807", "U+DC3D">>, <<"U+D807", "U+DC3F">>,
          <<"U+D807", "U+DC92">>, <<"U+D807", "U+DC93">>,
          <<"U+D807", "U+DC94">>, <<"U+D807", "U+DC95">>,
          <<"U+D807", "U+DC96">>, <<"U+D807", "U+DC97">>,
          <<"U+D807", "U+DC98">>, <<"U+D807", "U+DC99">>,
          <<"U+D807", "U+DC9A">>, <<"U+D807", "U+DC9B">>,
          <<"U+D807", "U+DC9C">>, <<"U+D807", "U+DC9D">>,
          <<"U+D807", "U+DC9E">>, <<"U+D807", "U+DC9F">>,
          <<"U+D807", "U+DCA0">>, <<"U+D807", "U+DCA1">>,
          <<"U+D807", "U+DCA2">>, <<"U+D807", "U+DCA3">>,
          <<"U+D807", "U+DCA4">>, <<"U+D807", "U+DCA5">>,
          <<"U+D807", "U+DCA6">>, <<"U+D807", "U+DCA7">>,
          <<"U+D807", "U+DCAA">>, <<"U+D807", "U+DCAB">>,
          <<"U+D807", "U+DCAC">>, <<"U+D807", "U+DCAD">>,
          <<"U+D807", "U+DCAE">>, <<"U+D807", "U+DCAF">>,
          <<"U+D807", "U+DCB0">>, <<"U+D807", "U+DCB2">>,
          <<"U+D807", "U+DCB3">>, <<"U+D807", "U+DCB5">>,
          <<"U+D807", "U+DCB6">>, <<"U+D807", "U+DD31">>,
          <<"U+D807", "U+DD32">>, <<"U+D807", "U+DD33">>,
          <<"U+D807", "U+DD34">>, <<"U+D807", "U+DD35">>,
          <<"U+D807", "U+DD36">>, <<"U+D807", "U+DD3A">>,
          <<"U+D807", "U+DD3C">>, <<"U+D807", "U+DD3D">>,
          <<"U+D807", "U+DD3F">>, <<"U+D807", "U+DD40">>,
          <<"U+D807", "U+DD41">>, <<"U+D807", "U+DD42">>,
          <<"U+D807", "U+DD43">>, <<"U+D807", "U+DD44">>,
          <<"U+D807", "U+DD45">>, <<"U+D807", "U+DD47">>,
          <<"U+D807", "U+DD90">>, <<"U+D807", "U+DD91">>,
          <<"U+D807", "U+DD95">>, <<"U+D807", "U+DD97">>,
          <<"U+D807", "U+DDD9">>, <<"U+D807", "U+DEF3">>,
          <<"U+D807", "U+DEF4">>, <<"U+D807", "U+DF00">>,
          <<"U+D807", "U+DF01">>, <<"U+D807", "U+DF36">>,
          <<"U+D807", "U+DF37">>, <<"U+D807", "U+DF38">>,
          <<"U+D807", "U+DF39">>, <<"U+D807", "U+DF3A">>,
          <<"U+D807", "U+DF40">>, <<"U+D807", "U+DF42">>,
          <<"U+D807", "U+DF5A">>, <<"U+D80D", "U+DC30">>,
          <<"U+D80D", "U+DC31">>, <<"U+D80D", "U+DC32">>,
          <<"U+D80D", "U+DC33">>, <<"U+D80D", "U+DC34">>,
          <<"U+D80D", "U+DC35">>, <<"U+D80D", "U+DC36">>,
          <<"U+D80D", "U+DC37">>, <<"U+D80D", "U+DC38">>,
          <<"U+D80D", "U+DC39">>, <<"U+D80D", "U+DC3A">>,
          <<"U+D80D", "U+DC3B">>, <<"U+D80D", "U+DC3C">>,
          <<"U+D80D", "U+DC3D">>, <<"U+D80D", "U+DC3E">>,
          <<"U+D80D", "U+DC3F">>, <<"U+D80D", "U+DC40">>,
          <<"U+D80D", "U+DC47">>, <<"U+D80D", "U+DC48">>,
          <<"U+D80D", "U+DC49">>, <<"U+D80D", "U+DC4A">>,
          <<"U+D80D", "U+DC4B">>, <<"U+D80D", "U+DC4C">>,
          <<"U+D80D", "U+DC4D">>, <<"U+D80D", "U+DC4E">>,
          <<"U+D80D", "U+DC4F">>, <<"U+D80D", "U+DC50">>,
          <<"U+D80D", "U+DC51">>, <<"U+D80D", "U+DC52">>,
          <<"U+D80D", "U+DC53">>, <<"U+D80D", "U+DC54">>,
          <<"U+D80D", "U+DC55">>, <<"U+D818", "U+DD1E">>,
          <<"U+D818", "U+DD1F">>, <<"U+D818", "U+DD20">>,
          <<"U+D818", "U+DD21">>, <<"U+D818", "U+DD22">>,
          <<"U+D818", "U+DD23">>, <<"U+D818", "U+DD24">>,
          <<"U+D818", "U+DD25">>, <<"U+D818", "U+DD26">>,
          <<"U+D818", "U+DD27">>, <<"U+D818", "U+DD28">>,
          <<"U+D818", "U+DD29">>, <<"U+D818", "U+DD2D">>,
          <<"U+D818", "U+DD2E">>, <<"U+D818", "U+DD2F">>,
          <<"U+D81A", "U+DEF0">>, <<"U+D81A", "U+DEF1">>,
          <<"U+D81A", "U+DEF2">>, <<"U+D81A", "U+DEF3">>,
          <<"U+D81A", "U+DEF4">>, <<"U+D81A", "U+DF30">>,
          <<"U+D81A", "U+DF31">>, <<"U+D81A", "U+DF32">>,
          <<"U+D81A", "U+DF33">>, <<"U+D81A", "U+DF34">>,
          <<"U+D81A", "U+DF35">>, <<"U+D81A", "U+DF36">>,
          <<"U+D81A", "U+DF40">>, <<"U+D81A", "U+DF41">>,
          <<"U+D81A", "U+DF42">>, <<"U+D81A", "U+DF43">>,
          <<"U+D81B", "U+DD40">>, <<"U+D81B", "U+DD41">>,
          <<"U+D81B", "U+DD42">>, <<"U+D81B", "U+DD6B">>,
          <<"U+D81B", "U+DD6C">>, <<"U+D81B", "U+DF4F">>,
          <<"U+D81B", "U+DF8F">>, <<"U+D81B", "U+DF90">>,
          <<"U+D81B", "U+DF91">>, <<"U+D81B", "U+DF92">>,
          <<"U+D81B", "U+DF93">>, <<"U+D81B", "U+DF94">>,
          <<"U+D81B", "U+DF95">>, <<"U+D81B", "U+DF96">>,
          <<"U+D81B", "U+DF97">>, <<"U+D81B", "U+DF98">>,
          <<"U+D81B", "U+DF99">>, <<"U+D81B", "U+DF9A">>,
          <<"U+D81B", "U+DF9B">>, <<"U+D81B", "U+DF9C">>,
          <<"U+D81B", "U+DF9D">>, <<"U+D81B", "U+DF9E">>,
          <<"U+D81B", "U+DF9F">>, <<"U+D81B", "U+DFE0">>,
          <<"U+D81B", "U+DFE1">>, <<"U+D81B", "U+DFE3">>,
          <<"U+D81B", "U+DFE4">>, <<"U+D81B", "U+DFF2">>,
          <<"U+D81B", "U+DFF3">>, <<"U+D82B", "U+DFF0">>,
          <<"U+D82B", "U+DFF1">>, <<"U+D82B", "U+DFF2">>,
          <<"U+D82B", "U+DFF3">>, <<"U+D82B", "U+DFF5">>,
          <<"U+D82B", "U+DFF6">>, <<"U+D82B", "U+DFF7">>,
          <<"U+D82B", "U+DFF8">>, <<"U+D82B", "U+DFF9">>,
          <<"U+D82B", "U+DFFA">>, <<"U+D82B", "U+DFFB">>,
          <<"U+D82B", "U+DFFD">>, <<"U+D82B", "U+DFFE">>,
          <<"U+D82F", "U+DC9D">>, <<"U+D82F", "U+DC9E">>,
          <<"U+D82F", "U+DCA0">>, <<"U+D82F", "U+DCA1">>,
          <<"U+D82F", "U+DCA2">>, <<"U+D82F", "U+DCA3">>,
          <<"U+D833", "U+DF00">>, <<"U+D833", "U+DF01">>,
          <<"U+D833", "U+DF02">>, <<"U+D833", "U+DF03">>,
          <<"U+D833", "U+DF04">>, <<"U+D833", "U+DF05">>,
          <<"U+D833", "U+DF06">>, <<"U+D833", "U+DF07">>,
          <<"U+D833", "U+DF08">>, <<"U+D833", "U+DF09">>,
          <<"U+D833", "U+DF0A">>, <<"U+D833", "U+DF0B">>,
          <<"U+D833", "U+DF0C">>, <<"U+D833", "U+DF0D">>,
          <<"U+D833", "U+DF0E">>, <<"U+D833", "U+DF0F">>,
          <<"U+D833", "U+DF10">>, <<"U+D833", "U+DF11">>,
          <<"U+D833", "U+DF12">>, <<"U+D833", "U+DF13">>,
          <<"U+D833", "U+DF14">>, <<"U+D833", "U+DF15">>,
          <<"U+D833", "U+DF16">>, <<"U+D833", "U+DF17">>,
          <<"U+D833", "U+DF18">>, <<"U+D833", "U+DF19">>,
          <<"U+D833", "U+DF1A">>, <<"U+D833", "U+DF1B">>,
          <<"U+D833", "U+DF1C">>, <<"U+D833", "U+DF1D">>,
          <<"U+D833", "U+DF1E">>, <<"U+D833", "U+DF1F">>,
          <<"U+D833", "U+DF20">>, <<"U+D833", "U+DF21">>,
          <<"U+D833", "U+DF22">>, <<"U+D833", "U+DF23">>,
          <<"U+D833", "U+DF24">>, <<"U+D833", "U+DF25">>,
          <<"U+D833", "U+DF26">>, <<"U+D833", "U+DF27">>,
          <<"U+D833", "U+DF28">>, <<"U+D833", "U+DF29">>,
          <<"U+D833", "U+DF2A">>, <<"U+D833", "U+DF2B">>,
          <<"U+D833", "U+DF2C">>, <<"U+D833", "U+DF2D">>,
          <<"U+D833", "U+DF30">>, <<"U+D833", "U+DF31">>,
          <<"U+D833", "U+DF32">>, <<"U+D833", "U+DF33">>,
          <<"U+D833", "U+DF34">>, <<"U+D833", "U+DF35">>,
          <<"U+D833", "U+DF36">>, <<"U+D833", "U+DF37">>,
          <<"U+D833", "U+DF38">>, <<"U+D833", "U+DF39">>,
          <<"U+D833", "U+DF3A">>, <<"U+D833", "U+DF3B">>,
          <<"U+D833", "U+DF3C">>, <<"U+D833", "U+DF3D">>,
          <<"U+D833", "U+DF3E">>, <<"U+D833", "U+DF3F">>,
          <<"U+D833", "U+DF40">>, <<"U+D833", "U+DF41">>,
          <<"U+D833", "U+DF42">>, <<"U+D833", "U+DF43">>,
          <<"U+D833", "U+DF44">>, <<"U+D833", "U+DF45">>,
          <<"U+D833", "U+DF46">>, <<"U+D834", "U+DD67">>,
          <<"U+D834", "U+DD68">>, <<"U+D834", "U+DD69">>,
          <<"U+D834", "U+DD73">>, <<"U+D834", "U+DD74">>,
          <<"U+D834", "U+DD75">>, <<"U+D834", "U+DD76">>,
          <<"U+D834", "U+DD77">>, <<"U+D834", "U+DD78">>,
          <<"U+D834", "U+DD79">>, <<"U+D834", "U+DD7A">>,
          <<"U+D834", "U+DD7B">>, <<"U+D834", "U+DD7C">>,
          <<"U+D834", "U+DD7D">>, <<"U+D834", "U+DD7E">>,
          <<"U+D834", "U+DD7F">>, <<"U+D834", "U+DD80">>,
          <<"U+D834", "U+DD81">>, <<"U+D834", "U+DD82">>,
          <<"U+D834", "U+DD85">>, <<"U+D834", "U+DD86">>,
          <<"U+D834", "U+DD87">>, <<"U+D834", "U+DD88">>,
          <<"U+D834", "U+DD89">>, <<"U+D834", "U+DD8A">>,
          <<"U+D834", "U+DD8B">>, <<"U+D834", "U+DDAA">>,
          <<"U+D834", "U+DDAB">>, <<"U+D834", "U+DDAC">>,
          <<"U+D834", "U+DDAD">>, <<"U+D834", "U+DE42">>,
          <<"U+D834", "U+DE43">>, <<"U+D834", "U+DE44">>,
          <<"U+D836", "U+DE00">>, <<"U+D836", "U+DE01">>,
          <<"U+D836", "U+DE02">>, <<"U+D836", "U+DE03">>,
          <<"U+D836", "U+DE04">>, <<"U+D836", "U+DE05">>,
          <<"U+D836", "U+DE06">>, <<"U+D836", "U+DE07">>,
          <<"U+D836", "U+DE08">>, <<"U+D836", "U+DE09">>,
          <<"U+D836", "U+DE0A">>, <<"U+D836", "U+DE0B">>,
          <<"U+D836", "U+DE0C">>, <<"U+D836", "U+DE0D">>,
          <<"U+D836", "U+DE0E">>, <<"U+D836", "U+DE0F">>,
          <<"U+D836", "U+DE10">>, <<"U+D836", "U+DE11">>,
          <<"U+D836", "U+DE12">>, <<"U+D836", "U+DE13">>,
          <<"U+D836", "U+DE14">>, <<"U+D836", "U+DE15">>,
          <<"U+D836", "U+DE16">>, <<"U+D836", "U+DE17">>,
          <<"U+D836", "U+DE18">>, <<"U+D836", "U+DE19">>,
          <<"U+D836", "U+DE1A">>, <<"U+D836", "U+DE1B">>,
          <<"U+D836", "U+DE1C">>, <<"U+D836", "U+DE1D">>,
          <<"U+D836", "U+DE1E">>, <<"U+D836", "U+DE1F">>,
          <<"U+D836", "U+DE20">>, <<"U+D836", "U+DE21">>,
          <<"U+D836", "U+DE22">>, <<"U+D836", "U+DE23">>,
          <<"U+D836", "U+DE24">>, <<"U+D836", "U+DE25">>,
          <<"U+D836", "U+DE26">>, <<"U+D836", "U+DE27">>,
          <<"U+D836", "U+DE28">>, <<"U+D836", "U+DE29">>,
          <<"U+D836", "U+DE2A">>, <<"U+D836", "U+DE2B">>,
          <<"U+D836", "U+DE2C">>, <<"U+D836", "U+DE2D">>,
          <<"U+D836", "U+DE2E">>, <<"U+D836", "U+DE2F">>,
          <<"U+D836", "U+DE30">>, <<"U+D836", "U+DE31">>,
          <<"U+D836", "U+DE32">>, <<"U+D836", "U+DE33">>,
          <<"U+D836", "U+DE34">>, <<"U+D836", "U+DE35">>,
          <<"U+D836", "U+DE36">>, <<"U+D836", "U+DE3B">>,
          <<"U+D836", "U+DE3C">>, <<"U+D836", "U+DE3D">>,
          <<"U+D836", "U+DE3E">>, <<"U+D836", "U+DE3F">>,
          <<"U+D836", "U+DE40">>, <<"U+D836", "U+DE41">>,
          <<"U+D836", "U+DE42">>, <<"U+D836", "U+DE43">>,
          <<"U+D836", "U+DE44">>, <<"U+D836", "U+DE45">>,
          <<"U+D836", "U+DE46">>, <<"U+D836", "U+DE47">>,
          <<"U+D836", "U+DE48">>, <<"U+D836", "U+DE49">>,
          <<"U+D836", "U+DE4A">>, <<"U+D836", "U+DE4B">>,
          <<"U+D836", "U+DE4C">>, <<"U+D836", "U+DE4D">>,
          <<"U+D836", "U+DE4E">>, <<"U+D836", "U+DE4F">>,
          <<"U+D836", "U+DE50">>, <<"U+D836", "U+DE51">>,
          <<"U+D836", "U+DE52">>, <<"U+D836", "U+DE53">>,
          <<"U+D836", "U+DE54">>, <<"U+D836", "U+DE55">>,
          <<"U+D836", "U+DE56">>, <<"U+D836", "U+DE57">>,
          <<"U+D836", "U+DE58">>, <<"U+D836", "U+DE59">>,
          <<"U+D836", "U+DE5A">>, <<"U+D836", "U+DE5B">>,
          <<"U+D836", "U+DE5C">>, <<"U+D836", "U+DE5D">>,
          <<"U+D836", "U+DE5E">>, <<"U+D836", "U+DE5F">>,
          <<"U+D836", "U+DE60">>, <<"U+D836", "U+DE61">>,
          <<"U+D836", "U+DE62">>, <<"U+D836", "U+DE63">>,
          <<"U+D836", "U+DE64">>, <<"U+D836", "U+DE65">>,
          <<"U+D836", "U+DE66">>, <<"U+D836", "U+DE67">>,
          <<"U+D836", "U+DE68">>, <<"U+D836", "U+DE69">>,
          <<"U+D836", "U+DE6A">>, <<"U+D836", "U+DE6B">>,
          <<"U+D836", "U+DE6C">>, <<"U+D836", "U+DE75">>,
          <<"U+D836", "U+DE84">>, <<"U+D836", "U+DE9B">>,
          <<"U+D836", "U+DE9C">>, <<"U+D836", "U+DE9D">>,
          <<"U+D836", "U+DE9E">>, <<"U+D836", "U+DE9F">>,
          <<"U+D836", "U+DEA1">>, <<"U+D836", "U+DEA2">>,
          <<"U+D836", "U+DEA3">>, <<"U+D836", "U+DEA4">>,
          <<"U+D836", "U+DEA5">>, <<"U+D836", "U+DEA6">>,
          <<"U+D836", "U+DEA7">>, <<"U+D836", "U+DEA8">>,
          <<"U+D836", "U+DEA9">>, <<"U+D836", "U+DEAA">>,
          <<"U+D836", "U+DEAB">>, <<"U+D836", "U+DEAC">>,
          <<"U+D836", "U+DEAD">>, <<"U+D836", "U+DEAE">>,
          <<"U+D836", "U+DEAF">>, <<"U+D838", "U+DC00">>,
          <<"U+D838", "U+DC01">>, <<"U+D838", "U+DC02">>,
          <<"U+D838", "U+DC03">>, <<"U+D838", "U+DC04">>,
          <<"U+D838", "U+DC05">>, <<"U+D838", "U+DC06">>,
          <<"U+D838", "U+DC08">>, <<"U+D838", "U+DC09">>,
          <<"U+D838", "U+DC0A">>, <<"U+D838", "U+DC0B">>,
          <<"U+D838", "U+DC0C">>, <<"U+D838", "U+DC0D">>,
          <<"U+D838", "U+DC0E">>, <<"U+D838", "U+DC0F">>,
          <<"U+D838", "U+DC10">>, <<"U+D838", "U+DC11">>,
          <<"U+D838", "U+DC12">>, <<"U+D838", "U+DC13">>,
          <<"U+D838", "U+DC14">>, <<"U+D838", "U+DC15">>,
          <<"U+D838", "U+DC16">>, <<"U+D838", "U+DC17">>,
          <<"U+D838", "U+DC18">>, <<"U+D838", "U+DC1B">>,
          <<"U+D838", "U+DC1C">>, <<"U+D838", "U+DC1D">>,
          <<"U+D838", "U+DC1E">>, <<"U+D838", "U+DC1F">>,
          <<"U+D838", "U+DC20">>, <<"U+D838", "U+DC21">>,
          <<"U+D838", "U+DC23">>, <<"U+D838", "U+DC24">>,
          <<"U+D838", "U+DC26">>, <<"U+D838", "U+DC27">>,
          <<"U+D838", "U+DC28">>, <<"U+D838", "U+DC29">>,
          <<"U+D838", "U+DC2A">>, <<"U+D838", "U+DC30">>,
          <<"U+D838", "U+DC31">>, <<"U+D838", "U+DC32">>,
          <<"U+D838", "U+DC33">>, <<"U+D838", "U+DC34">>,
          <<"U+D838", "U+DC35">>, <<"U+D838", "U+DC36">>,
          <<"U+D838", "U+DC37">>, <<"U+D838", "U+DC38">>,
          <<"U+D838", "U+DC39">>, <<"U+D838", "U+DC3A">>,
          <<"U+D838", "U+DC3B">>, <<"U+D838", "U+DC3C">>,
          <<"U+D838", "U+DC3D">>, <<"U+D838", "U+DC3E">>,
          <<"U+D838", "U+DC3F">>, <<"U+D838", "U+DC40">>,
          <<"U+D838", "U+DC41">>, <<"U+D838", "U+DC42">>,
          <<"U+D838", "U+DC43">>, <<"U+D838", "U+DC44">>,
          <<"U+D838", "U+DC45">>, <<"U+D838", "U+DC46">>,
          <<"U+D838", "U+DC47">>, <<"U+D838", "U+DC48">>,
          <<"U+D838", "U+DC49">>, <<"U+D838", "U+DC4A">>,
          <<"U+D838", "U+DC4B">>, <<"U+D838", "U+DC4C">>,
          <<"U+D838", "U+DC4D">>, <<"U+D838", "U+DC4E">>,
          <<"U+D838", "U+DC4F">>, <<"U+D838", "U+DC50">>,
          <<"U+D838", "U+DC51">>, <<"U+D838", "U+DC52">>,
          <<"U+D838", "U+DC53">>, <<"U+D838", "U+DC54">>,
          <<"U+D838", "U+DC55">>, <<"U+D838", "U+DC56">>,
          <<"U+D838", "U+DC57">>, <<"U+D838", "U+DC58">>,
          <<"U+D838", "U+DC59">>, <<"U+D838", "U+DC5A">>,
          <<"U+D838", "U+DC5B">>, <<"U+D838", "U+DC5C">>,
          <<"U+D838", "U+DC5D">>, <<"U+D838", "U+DC5E">>,
          <<"U+D838", "U+DC5F">>, <<"U+D838", "U+DC60">>,
          <<"U+D838", "U+DC61">>, <<"U+D838", "U+DC62">>,
          <<"U+D838", "U+DC63">>, <<"U+D838", "U+DC64">>,
          <<"U+D838", "U+DC65">>, <<"U+D838", "U+DC66">>,
          <<"U+D838", "U+DC67">>, <<"U+D838", "U+DC68">>,
          <<"U+D838", "U+DC69">>, <<"U+D838", "U+DC6A">>,
          <<"U+D838", "U+DC6B">>, <<"U+D838", "U+DC6C">>,
          <<"U+D838", "U+DC6D">>, <<"U+D838", "U+DC8F">>,
          <<"U+D838", "U+DD30">>, <<"U+D838", "U+DD31">>,
          <<"U+D838", "U+DD32">>, <<"U+D838", "U+DD33">>,
          <<"U+D838", "U+DD34">>, <<"U+D838", "U+DD35">>,
          <<"U+D838", "U+DD36">>, <<"U+D838", "U+DD37">>,
          <<"U+D838", "U+DD38">>, <<"U+D838", "U+DD39">>,
          <<"U+D838", "U+DD3A">>, <<"U+D838", "U+DD3B">>,
          <<"U+D838", "U+DD3C">>, <<"U+D838", "U+DD3D">>,
          <<"U+D838", "U+DEAE">>, <<"U+D838", "U+DEEC">>,
          <<"U+D838", "U+DEED">>, <<"U+D838", "U+DEEE">>,
          <<"U+D838", "U+DEEF">>, <<"U+D839", "U+DCEB">>,
          <<"U+D839", "U+DCEC">>, <<"U+D839", "U+DCED">>,
          <<"U+D839", "U+DCEE">>, <<"U+D839", "U+DCEF">>,
          <<"U+D839", "U+DDEE">>, <<"U+D839", "U+DDEF">>,
          <<"U+D839", "U+DEE3">>, <<"U+D839", "U+DEE6">>,
          <<"U+D839", "U+DEEE">>, <<"U+D839", "U+DEEF">>,
          <<"U+D839", "U+DEF5">>, <<"U+D839", "U+DEFF">>,
          <<"U+D83A", "U+DCD0">>, <<"U+D83A", "U+DCD1">>,
          <<"U+D83A", "U+DCD2">>, <<"U+D83A", "U+DCD3">>,
          <<"U+D83A", "U+DCD4">>, <<"U+D83A", "U+DCD5">>,
          <<"U+D83A", "U+DCD6">>, <<"U+D83A", "U+DD44">>,
          <<"U+D83A", "U+DD45">>, <<"U+D83A", "U+DD46">>,
          <<"U+D83A", "U+DD47">>, <<"U+D83A", "U+DD48">>,
          <<"U+D83A", "U+DD49">>, <<"U+D83A", "U+DD4A">>,
          <<"U+D83A", "U+DD4B">>, <<"U+D83C", "U+DFFB">>,
          <<"U+D83C", "U+DFFC">>, <<"U+D83C", "U+DFFD">>,
          <<"U+D83C", "U+DFFE">>, <<"U+D83C", "U+DFFF">>,
          <<"U+DB40", "U+DC01">>, <<"U+DB40", "U+DC20">>,
          <<"U+DB40", "U+DC21">>, <<"U+DB40", "U+DC22">>,
          <<"U+DB40", "U+DC23">>, <<"U+DB40", "U+DC24">>,
          <<"U+DB40", "U+DC25">>, <<"U+DB40", "U+DC26">>,
          <<"U+DB40", "U+DC27">>, <<"U+DB40", "U+DC28">>,
          <<"U+DB40", "U+DC29">>, <<"U+DB40", "U+DC2A">>,
          <<"U+DB40", "U+DC2B">>, <<"U+DB40", "U+DC2C">>,
          <<"U+DB40", "U+DC2D">>, <<"U+DB40", "U+DC2E">>,
          <<"U+DB40", "U+DC2F">>, <<"U+DB40", "U+DC30">>,
          <<"U+DB40", "U+DC31">>, <<"U+DB40", "U+DC32">>,
          <<"U+DB40", "U+DC33">>, <<"U+DB40", "U+DC34">>,
          <<"U+DB40", "U+DC35">>, <<"U+DB40", "U+DC36">>,
          <<"U+DB40", "U+DC37">>, <<"U+DB40", "U+DC38">>,
          <<"U+DB40", "U+DC39">>, <<"U+DB40", "U+DC3A">>,
          <<"U+DB40", "U+DC3B">>, <<"U+DB40", "U+DC3C">>,
          <<"U+DB40", "U+DC3D">>, <<"U+DB40", "U+DC3E">>,
          <<"U+DB40", "U+DC3F">>, <<"U+DB40", "U+DC40">>,
          <<"U+DB40", "U+DC41">>, <<"U+DB40", "U+DC42">>,
          <<"U+DB40", "U+DC43">>, <<"U+DB40", "U+DC44">>,
          <<"U+DB40", "U+DC45">>, <<"U+DB40", "U+DC46">>,
          <<"U+DB40", "U+DC47">>, <<"U+DB40", "U+DC48">>,
          <<"U+DB40", "U+DC49">>, <<"U+DB40", "U+DC4A">>,
          <<"U+DB40", "U+DC4B">>, <<"U+DB40", "U+DC4C">>,
          <<"U+DB40", "U+DC4D">>, <<"U+DB40", "U+DC4E">>,
          <<"U+DB40", "U+DC4F">>, <<"U+DB40", "U+DC50">>,
          <<"U+DB40", "U+DC51">>, <<"U+DB40", "U+DC52">>,
          <<"U+DB40", "U+DC53">>, <<"U+DB40", "U+DC54">>,
          <<"U+DB40", "U+DC55">>, <<"U+DB40", "U+DC56">>,
          <<"U+DB40", "U+DC57">>, <<"U+DB40", "U+DC58">>,
          <<"U+DB40", "U+DC59">>, <<"U+DB40", "U+DC5A">>,
          <<"U+DB40", "U+DC5B">>, <<"U+DB40", "U+DC5C">>,
          <<"U+DB40", "U+DC5D">>, <<"U+DB40", "U+DC5E">>,
          <<"U+DB40", "U+DC5F">>, <<"U+DB40", "U+DC60">>,
          <<"U+DB40", "U+DC61">>, <<"U+DB40", "U+DC62">>,
          <<"U+DB40", "U+DC63">>, <<"U+DB40", "U+DC64">>,
          <<"U+DB40", "U+DC65">>, <<"U+DB40", "U+DC66">>,
          <<"U+DB40", "U+DC67">>, <<"U+DB40", "U+DC68">>,
          <<"U+DB40", "U+DC69">>, <<"U+DB40", "U+DC6A">>,
          <<"U+DB40", "U+DC6B">>, <<"U+DB40", "U+DC6C">>,
          <<"U+DB40", "U+DC6D">>, <<"U+DB40", "U+DC6E">>,
          <<"U+DB40", "U+DC6F">>, <<"U+DB40", "U+DC70">>,
          <<"U+DB40", "U+DC71">>, <<"U+DB40", "U+DC72">>,
          <<"U+DB40", "U+DC73">>, <<"U+DB40", "U+DC74">>,
          <<"U+DB40", "U+DC75">>, <<"U+DB40", "U+DC76">>,
          <<"U+DB40", "U+DC77">>, <<"U+DB40", "U+DC78">>,
          <<"U+DB40", "U+DC79">>, <<"U+DB40", "U+DC7A">>,
          <<"U+DB40", "U+DC7B">>, <<"U+DB40", "U+DC7C">>,
          <<"U+DB40", "U+DC7D">>, <<"U+DB40", "U+DC7E">>,
          <<"U+DB40", "U+DC7F">>, <<"U+DB40", "U+DD00">>,
          <<"U+DB40", "U+DD01">>, <<"U+DB40", "U+DD02">>,
          <<"U+DB40", "U+DD03">>, <<"U+DB40", "U+DD04">>,
          <<"U+DB40", "U+DD05">>, <<"U+DB40", "U+DD06">>,
          <<"U+DB40", "U+DD07">>, <<"U+DB40", "U+DD08">>,
          <<"U+DB40", "U+DD09">>, <<"U+DB40", "U+DD0A">>,
          <<"U+DB40", "U+DD0B">>, <<"U+DB40", "U+DD0C">>,
          <<"U+DB40", "U+DD0D">>, <<"U+DB40", "U+DD0E">>,
          <<"U+DB40", "U+DD0F">>, <<"U+DB40", "U+DD10">>,
          <<"U+DB40", "U+DD11">>, <<"U+DB40", "U+DD12">>,
          <<"U+DB40", "U+DD13">>, <<"U+DB40", "U+DD14">>,
          <<"U+DB40", "U+DD15">>, <<"U+DB40", "U+DD16">>,
          <<"U+DB40", "U+DD17">>, <<"U+DB40", "U+DD18">>,
          <<"U+DB40", "U+DD19">>, <<"U+DB40", "U+DD1A">>,
          <<"U+DB40", "U+DD1B">>, <<"U+DB40", "U+DD1C">>,
          <<"U+DB40", "U+DD1D">>, <<"U+DB40", "U+DD1E">>,
          <<"U+DB40", "U+DD1F">>, <<"U+DB40", "U+DD20">>,
          <<"U+DB40", "U+DD21">>, <<"U+DB40", "U+DD22">>,
          <<"U+DB40", "U+DD23">>, <<"U+DB40", "U+DD24">>,
          <<"U+DB40", "U+DD25">>, <<"U+DB40", "U+DD26">>,
          <<"U+DB40", "U+DD27">>, <<"U+DB40", "U+DD28">>,
          <<"U+DB40", "U+DD29">>, <<"U+DB40", "U+DD2A">>,
          <<"U+DB40", "U+DD2B">>, <<"U+DB40", "U+DD2C">>,
          <<"U+DB40", "U+DD2D">>, <<"U+DB40", "U+DD2E">>,
          <<"U+DB40", "U+DD2F">>, <<"U+DB40", "U+DD30">>,
          <<"U+DB40", "U+DD31">>, <<"U+DB40", "U+DD32">>,
          <<"U+DB40", "U+DD33">>, <<"U+DB40", "U+DD34">>,
          <<"U+DB40", "U+DD35">>, <<"U+DB40", "U+DD36">>,
          <<"U+DB40", "U+DD37">>, <<"U+DB40", "U+DD38">>,
          <<"U+DB40", "U+DD39">>, <<"U+DB40", "U+DD3A">>,
          <<"U+DB40", "U+DD3B">>, <<"U+DB40", "U+DD3C">>,
          <<"U+DB40", "U+DD3D">>, <<"U+DB40", "U+DD3E">>,
          <<"U+DB40", "U+DD3F">>, <<"U+DB40", "U+DD40">>,
          <<"U+DB40", "U+DD41">>, <<"U+DB40", "U+DD42">>,
          <<"U+DB40", "U+DD43">>, <<"U+DB40", "U+DD44">>,
          <<"U+DB40", "U+DD45">>, <<"U+DB40", "U+DD46">>,
          <<"U+DB40", "U+DD47">>, <<"U+DB40", "U+DD48">>,
          <<"U+DB40", "U+DD49">>, <<"U+DB40", "U+DD4A">>,
          <<"U+DB40", "U+DD4B">>, <<"U+DB40", "U+DD4C">>,
          <<"U+DB40", "U+DD4D">>, <<"U+DB40", "U+DD4E">>,
          <<"U+DB40", "U+DD4F">>, <<"U+DB40", "U+DD50">>,
          <<"U+DB40", "U+DD51">>, <<"U+DB40", "U+DD52">>,
          <<"U+DB40", "U+DD53">>, <<"U+DB40", "U+DD54">>,
          <<"U+DB40", "U+DD55">>, <<"U+DB40", "U+DD56">>,
          <<"U+DB40", "U+DD57">>, <<"U+DB40", "U+DD58">>,
          <<"U+DB40", "U+DD59">>, <<"U+DB40", "U+DD5A">>,
          <<"U+DB40", "U+DD5B">>, <<"U+DB40", "U+DD5C">>,
          <<"U+DB40", "U+DD5D">>, <<"U+DB40", "U+DD5E">>,
          <<"U+DB40", "U+DD5F">>, <<"U+DB40", "U+DD60">>,
          <<"U+DB40", "U+DD61">>, <<"U+DB40", "U+DD62">>,
          <<"U+DB40", "U+DD63">>, <<"U+DB40", "U+DD64">>,
          <<"U+DB40", "U+DD65">>, <<"U+DB40", "U+DD66">>,
          <<"U+DB40", "U+DD67">>, <<"U+DB40", "U+DD68">>,
          <<"U+DB40", "U+DD69">>, <<"U+DB40", "U+DD6A">>,
          <<"U+DB40", "U+DD6B">>, <<"U+DB40", "U+DD6C">>,
          <<"U+DB40", "U+DD6D">>, <<"U+DB40", "U+DD6E">>,
          <<"U+DB40", "U+DD6F">>, <<"U+DB40", "U+DD70">>,
          <<"U+DB40", "U+DD71">>, <<"U+DB40", "U+DD72">>,
          <<"U+DB40", "U+DD73">>, <<"U+DB40", "U+DD74">>,
          <<"U+DB40", "U+DD75">>, <<"U+DB40", "U+DD76">>,
          <<"U+DB40", "U+DD77">>, <<"U+DB40", "U+DD78">>,
          <<"U+DB40", "U+DD79">>, <<"U+DB40", "U+DD7A">>,
          <<"U+DB40", "U+DD7B">>, <<"U+DB40", "U+DD7C">>,
          <<"U+DB40", "U+DD7D">>, <<"U+DB40", "U+DD7E">>,
          <<"U+DB40", "U+DD7F">>, <<"U+DB40", "U+DD80">>,
          <<"U+DB40", "U+DD81">>, <<"U+DB40", "U+DD82">>,
          <<"U+DB40", "U+DD83">>, <<"U+DB40", "U+DD84">>,
          <<"U+DB40", "U+DD85">>, <<"U+DB40", "U+DD86">>,
          <<"U+DB40", "U+DD87">>, <<"U+DB40", "U+DD88">>,
          <<"U+DB40", "U+DD89">>, <<"U+DB40", "U+DD8A">>,
          <<"U+DB40", "U+DD8B">>, <<"U+DB40", "U+DD8C">>,
          <<"U+DB40", "U+DD8D">>, <<"U+DB40", "U+DD8E">>,
          <<"U+DB40", "U+DD8F">>, <<"U+DB40", "U+DD90">>,
          <<"U+DB40", "U+DD91">>, <<"U+DB40", "U+DD92">>,
          <<"U+DB40", "U+DD93">>, <<"U+DB40", "U+DD94">>,
          <<"U+DB40", "U+DD95">>, <<"U+DB40", "U+DD96">>,
          <<"U+DB40", "U+DD97">>, <<"U+DB40", "U+DD98">>,
          <<"U+DB40", "U+DD99">>, <<"U+DB40", "U+DD9A">>,
          <<"U+DB40", "U+DD9B">>, <<"U+DB40", "U+DD9C">>,
          <<"U+DB40", "U+DD9D">>, <<"U+DB40", "U+DD9E">>,
          <<"U+DB40", "U+DD9F">>, <<"U+DB40", "U+DDA0">>,
          <<"U+DB40", "U+DDA1">>, <<"U+DB40", "U+DDA2">>,
          <<"U+DB40", "U+DDA3">>, <<"U+DB40", "U+DDA4">>,
          <<"U+DB40", "U+DDA5">>, <<"U+DB40", "U+DDA6">>,
          <<"U+DB40", "U+DDA7">>, <<"U+DB40", "U+DDA8">>,
          <<"U+DB40", "U+DDA9">>, <<"U+DB40", "U+DDAA">>,
          <<"U+DB40", "U+DDAB">>, <<"U+DB40", "U+DDAC">>,
          <<"U+DB40", "U+DDAD">>, <<"U+DB40", "U+DDAE">>,
          <<"U+DB40", "U+DDAF">>, <<"U+DB40", "U+DDB0">>,
          <<"U+DB40", "U+DDB1">>, <<"U+DB40", "U+DDB2">>,
          <<"U+DB40", "U+DDB3">>, <<"U+DB40", "U+DDB4">>,
          <<"U+DB40", "U+DDB5">>, <<"U+DB40", "U+DDB6">>,
          <<"U+DB40", "U+DDB7">>, <<"U+DB40", "U+DDB8">>,
          <<"U+DB40", "U+DDB9">>, <<"U+DB40", "U+DDBA">>,
          <<"U+DB40", "U+DDBB">>, <<"U+DB40", "U+DDBC">>,
          <<"U+DB40", "U+DDBD">>, <<"U+DB40", "U+DDBE">>,
          <<"U+DB40", "U+DDBF">>, <<"U+DB40", "U+DDC0">>,
          <<"U+DB40", "U+DDC1">>, <<"U+DB40", "U+DDC2">>,
          <<"U+DB40", "U+DDC3">>, <<"U+DB40", "U+DDC4">>,
          <<"U+DB40", "U+DDC5">>, <<"U+DB40", "U+DDC6">>,
          <<"U+DB40", "U+DDC7">>, <<"U+DB40", "U+DDC8">>,
          <<"U+DB40", "U+DDC9">>, <<"U+DB40", "U+DDCA">>,
          <<"U+DB40", "U+DDCB">>, <<"U+DB40", "U+DDCC">>,
          <<"U+DB40", "U+DDCD">>, <<"U+DB40", "U+DDCE">>,
          <<"U+DB40", "U+DDCF">>, <<"U+DB40", "U+DDD0">>,
          <<"U+DB40", "U+DDD1">>, <<"U+DB40", "U+DDD2">>,
          <<"U+DB40", "U+DDD3">>, <<"U+DB40", "U+DDD4">>,
          <<"U+DB40", "U+DDD5">>, <<"U+DB40", "U+DDD6">>,
          <<"U+DB40", "U+DDD7">>, <<"U+DB40", "U+DDD8">>,
          <<"U+DB40", "U+DDD9">>, <<"U+DB40", "U+DDDA">>,
          <<"U+DB40", "U+DDDB">>, <<"U+DB40", "U+DDDC">>,
          <<"U+DB40", "U+DDDD">>, <<"U+DB40", "U+DDDE">>,
          <<"U+DB40", "U+DDDF">>, <<"U+DB40", "U+DDE0">>,
          <<"U+DB40", "U+DDE1">>, <<"U+DB40", "U+DDE2">>,
          <<"U+DB40", "U+DDE3">>, <<"U+DB40", "U+DDE4">>,
          <<"U+DB40", "U+DDE5">>, <<"U+DB40", "U+DDE6">>,
          <<"U+DB40", "U+DDE7">>, <<"U+DB40", "U+DDE8">>,
          <<"U+DB40", "U+DDE9">>, <<"U+DB40", "U+DDEA">>,
          <<"U+DB40", "U+DDEB">>, <<"U+DB40", "U+DDEC">>,
          <<"U+DB40", "U+DDED">>, <<"U+DB40", "U+DDEE">>,
          <<"U+DB40", "U+DDEF">> }

\* the surrogate pairs the tables above hold
SurrogatePairs ==
    {cp \in (DOMAIN LowerCase) \cup Cased \cup CaseIgnorable : Len(cp) = 2}

\* the code point next to position i of s: the one that begins at i
\* (dir = 1) or the one that ends at i (dir = -1); a surrogate that has no
\* partner is a code point of its own
codePointAt(s, i, dir) ==
    IF dir = 1 /\ i < Len(s) /\ <<s[i], s[i + 1]>> \in SurrogatePairs
    THEN <<s[i], s[i + 1]>>
    ELSE IF dir = -1 /\ i > 1 /\ <<s[i - 1], s[i]>> \in SurrogatePairs
    THEN <<s[i - 1], s[i]>>
    ELSE <<s[i]>>

\* from position i on in direction dir: case-ignorable code points, if any,
\* and then a cased one
RECURSIVE isFollowedByCasedLetter(_, _, _)
isFollowedByCasedLetter(s, i, dir) ==
    IF i < 1 \/ i > Len(s)
    THEN FALSE
    ELSE IF codePointAt(s, i, dir) \in CaseIgnorable
    THEN isFollowedByCasedLetter(s, i + dir * Len(codePointAt(s, i, dir)), dir)
    ELSE codePointAt(s, i, dir) \in Cased

\* the lower case of s from position i on, code point after code point:
\* the capital sigma becomes the final sigma after a cased letter and not
\* before one (the condition Final_Sigma of SpecialCasing.txt)
RECURSIVE toLowerCaseFrom(_, _)
toLowerCaseFrom(s, i) ==
    IF i > Len(s)
    THEN <<>>
    ELSE LET cp == codePointAt(s, i, 1)
         IN  (IF cp = << "Σ" >>
                     /\ isFollowedByCasedLetter(s, i - 1, -1)
                     /\ ~isFollowedByCasedLetter(s, i + 1, 1)
              THEN << "ς" >>
              ELSE IF cp \in DOMAIN LowerCase
              THEN LowerCase[cp]
              ELSE cp) \o toLowerCaseFrom(s, i + Len(cp))

\* the code units U+0000 to U+007F
Ascii ==
    { "U+0000", "", "", "", "", "", "", "", "", "\t", "\n", "", "\f",
      "\r", "", "", "", "", "", "", "", "", "", "", "", "", "",
      "", "", "", "", "", " ", "!", "\"", "#", "$", "%", "&", "'", "(",
      ")", "*", "+", ",", "-", ".", "/", "0", "1", "2", "3", "4", "5", "6",
      "7", "8", "9", ":", ";", "<", "=", ">", "?", "@", "A", "B", "C", "D",
      "E", "F", "G", "H", "I", "J", "K", "L", "M", "N", "O", "P", "Q", "R",
      "S", "T", "U", "V", "W", "X", "Y", "Z", "[", "\\", "]", "^", "_",
      "U+0060", "a", "b", "c", "d", "e", "f", "g", "h", "i", "j", "k", "l",
      "m", "n", "o", "p", "q", "r", "s", "t", "u", "v", "w", "x", "y", "z",
      "{", "|", "}", "~", "" }

\* String.prototype.toLowerCase; a text of ASCII alone is lower-cased unit
\* by unit
toLowerCase(s) ==
    IF \A i \in 1..Len(s) : s[i] \in Ascii
    THEN [i \in 1..Len(s) |->
             IF s[i] \in DOMAIN AsciiLower THEN AsciiLower[s[i]] ELSE s[i]]
    ELSE toLowerCaseFrom(s, 1)

\* String.prototype.includes
includes(s, sub) ==
    \E i \in 1..(Len(s) - Len(sub) + 1) : SubSeq(s, i, i + Len(sub) - 1) = sub

\* Array.prototype.findIndex(h => h.includes(key)): 0-based, -1 if none
findIndex(headers, key) ==
    IF \E i \in 1..Len(headers) : includes(headers[i], key)
    THEN (CHOOSE i \in 1..Len(headers) :
             /\ includes(headers[i], key)
             /\ \A j \in 1..(i - 1) : ~includes(headers[j], key)) - 1
    ELSE -1

\* the value of an array element that does not exist; no text equals it,
\* since no code unit is written "undefined"
Undefined == << "undefined" >>

\* parts[idx] for a 0-based idx
At(parts, idx) ==
    IF idx + 1 \in 1..Len(parts) THEN parts[idx + 1] ELSE Undefined

DigitChars == << "0", "1", "2", "3", "4", "5", "6", "7", "8", "9" >>

\* the digits and their values
DigitValue ==
    ("0" :> 0) @@ ("1" :> 1) @@ ("2" :> 2) @@ ("3" :> 3) @@ ("4" :> 4) @@
    ("5" :> 5) @@ ("6" :> 6) @@ ("7" :> 7) @@ ("8" :> 8) @@ ("9" :> 9)

isDigit(c) == c \in DOMAIN DigitValue

digitVal(c) == DigitValue[c]

\* the number written by a sequence of digits
RECURSIVE numberOf(_)
numberOf(s) ==
    IF s = <<>>
    THEN 0
    ELSE 10 * numberOf(SubSeq(s, 1, Len(s) - 1)) + digitVal(s[Len(s)])

\* String(n) for a natural number n
RECURSIVE numberToString(_)
numberToString(n) ==
    IF n < 10
    THEN << DigitChars[n + 1] >>
    ELSE Append(numberToString(n \div 10), DigitChars[(n % 10) + 1])

pad2(n) == << DigitChars[(n \div 10) + 1], DigitChars[(n % 10) + 1] >>

pad4(n) == pad2(n \div 100) \o pad2(n % 100)

(***************************************************************************)
(* Date: time values, the calendar, parsing and formatting.                *)
(***************************************************************************)
MsPerMinute == 60 * 1000

MsPerDay == 24 * 60 * MsPerMinute

\* the time value of an invalid Date (getTime() is NaN)
NaN == <<>>

\* the time value 0, the epoch
TimeZero == << 0, 0 >>

\* the time value days * MsPerDay + ms, for any integer ms
timeValue(days, ms) == << days + (ms \div MsPerDay), ms % MsPerDay >>

\* a > b on time values
greaterThan(a, b) == a[1] > b[1] \/ (a[1] = b[1] /\ a[2] > b[2])

\* day number (days since 1970-01-01) of a date of the proleptic Gregorian
\* calendar, the calendar of ECMAScript's MakeDay
daysFromCivil(y, m, d) ==
    LET yy  == IF m <= 2 THEN y - 1 ELSE y
        era == yy \div 400
        yoe == yy - era * 400
        mp  == IF m > 2 THEN m - 3 ELSE m + 9
        doy == ((153 * mp + 2) \div 5) + d - 1
        doe == yoe * 365 + (yoe \div 4) - (yoe \div 100) + doy
    IN  era * 146097 + doe - 719468

\* <<year, month, day>> of a day number: ECMAScript's YearFromTime,
\* MonthFromTime and DateFromTime
civilFromDays(z) ==
    LET zz  == z + 719468
        era == zz \div 146097
        doe == zz - era * 146097
        yoe == (doe - (doe \div 1460) + (doe \div 36524) - (doe \div 146096))
                   \div 365
        doy == doe - (365 * yoe + (yoe \div 4) - (yoe \div 100))
        mp  == (5 * doy + 2) \div 153
        d   == doy - ((153 * mp + 2) \div 5) + 1
        m   == IF mp < 10 THEN mp + 3 ELSE mp - 9
        y   == yoe + era * 400
    IN  << IF m <= 2 THEN y + 1 ELSE y, m, d >>

(***************************************************************************)
(* new Date(text): the date parser of the runtime (V8, the engine of       *)
(* Chrome and Node).  ECMAScript fixes the date-time string format and     *)
(* leaves every other text to the implementation.  The parser cuts the     *)
(* text into tokens, reads as far as it can as a date-time string          *)
(* ([+-yy]yyyy[-MM[-DD]][THH:mm[:ss[.sss]][Z|+-hh:mm]]) and hands what is  *)
(* left to its legacy rules; the day, the time and the zone it has read    *)
(* are then checked and composed into a time value.                        *)
(***************************************************************************)
\* the value of a component that has not been read
kNone == 2147483647

\* digits of a numeral that count towards its value
kMaxSignificantDigits == 9

\* the characters below "A": the control characters U+0000 to U+001F, the
\* space, the punctuation and the digits
BelowA ==
    { "U+0000", "", "", "", "", "", "", "", "", "", "", "", "", "", "",
      "", "", "", "", "", "", "", "", "", "", "", "" }
        \cup { "\t", "\n", "", "\f", "\r", " " }
        \cup { "!", "\"", "#", "$", "%", "&", "'", "(", ")", "*", "+", ",",
               "-", ".", "/", ":", ";", "<", "=", ">", "?", "@" }
        \cup DOMAIN DigitValue

\* a character of a word: at or above "A" and not a WhiteSpace of
\* ECMAScript; the line terminators U+2028 and U+2029 are characters of a
\* word (LF and CR are below "A")
IsWordChar(c) ==
    c \notin BelowA /\ (c \in WhiteSpace => c \in {"U+2028", "U+2029"})

Token(tag, type, sym, value, len) ==
    [ tag |-> tag, type |-> type, sym |-> sym, value |-> value, len |-> len ]

EndOfInput == Token("end", "", "", 0, 0)

UnknownToken == Token("unknown", "", "", 0, 1)

IsNumber(t) == t.tag = "number"

IsFixedNumber(t, len) == t.tag = "number" /\ t.len = len

IsSymbol(t, c) == t.tag = "symbol" /\ t.sym = c

IsAsciiSign(t) == t.tag = "symbol" /\ t.sym \in {"+", "-"}

ascii_sign(t) == IF t.sym = "+" THEN 1 ELSE -1

IsKeywordType(t, type) == t.tag = "keyword" /\ t.type = type

IsKeywordZ(t) == IsKeywordType(t, "TIME_ZONE_NAME") /\ t.len = 1

IsEndOfInput(t) == t.tag = "end"

Keyword(word, type, value) == [ word |-> word, type |-> type, value |-> value ]

KeywordTable ==
    << Keyword(<< "j", "a", "n" >>, "MONTH_NAME", 1),
       Keyword(<< "f", "e", "b" >>, "MONTH_NAME", 2),
       Keyword(<< "m", "a", "r" >>, "MONTH_NAME", 3),
       Keyword(<< "a", "p", "r" >>, "MONTH_NAME", 4),
       Keyword(<< "m", "a", "y" >>, "MONTH_NAME", 5),
       Keyword(<< "j", "u", "n" >>, "MONTH_NAME", 6),
       Keyword(<< "j", "u", "l" >>, "MONTH_NAME", 7),
       Keyword(<< "a", "u", "g" >>, "MONTH_NAME", 8),
       Keyword(<< "s", "e", "p" >>, "MONTH_NAME", 9),
       Keyword(<< "o", "c", "t" >>, "MONTH_NAME", 10),
       Keyword(<< "n", "o", "v" >>, "MONTH_NAME", 11),
       Keyword(<< "d", "e", "c" >>, "MONTH_NAME", 12),
       Keyword(<< "a", "m" >>, "AM_PM", 0),
       Keyword(<< "p", "m" >>, "AM_PM", 12),
       Keyword(<< "u", "t" >>, "TIME_ZONE_NAME", 0),
       Keyword(<< "u", "t", "c" >>, "TIME_ZONE_NAME", 0),
       Keyword(<< "z" >>, "TIME_ZONE_NAME", 0),
       Keyword(<< "g", "m", "t" >>, "TIME_ZONE_NAME", 0),
       Keyword(<< "c", "d", "t" >>, "TIME_ZONE_NAME", -5),
       Keyword(<< "c", "s", "t" >>, "TIME_ZONE_NAME", -6),
       Keyword(<< "e", "d", "t" >>, "TIME_ZONE_NAME", -4),
       Keyword(<< "e", "s", "t" >>, "TIME_ZONE_NAME", -5),
       Keyword(<< "m", "d", "t" >>, "TIME_ZONE_NAME", -6),
       Keyword(<< "m", "s", "t" >>, "TIME_ZONE_NAME", -7),
       Keyword(<< "p", "d", "t" >>, "TIME_ZONE_NAME", -7),
       Keyword(<< "p", "s", "t" >>, "TIME_ZONE_NAME", -8),
       Keyword(<< "t" >>, "TIME_SEPARATOR", 0) >>

\* the first keyword whose letters are the word's first three, the ASCII
\* capitals lower-cased; only a month name may be the beginning of a longer
\* word
Lookup(word) ==
    LET prefix == [i \in 1..(IF Len(word) < 3 THEN Len(word) ELSE 3) |->
                       IF word[i] \in DOMAIN AsciiLower
                       THEN AsciiLower[word[i]]
                       ELSE word[i]]
        hits   == {i \in 1..Len(KeywordTable) :
                       /\ KeywordTable[i].word = prefix
                       /\ (Len(word) <= 3
                              \/ KeywordTable[i].type = "MONTH_NAME")}
    IN  IF hits = {}
        THEN Keyword(<<>>, "INVALID", 0)
        ELSE KeywordTable[CHOOSE i \in hits : \A j \in hits : i <= j]

RECURSIVE digitsEnd(_, _)
digitsEnd(s, i) ==
    IF i <= Len(s) /\ isDigit(s[i]) THEN digitsEnd(s, i + 1) ELSE i

RECURSIVE wordEnd(_, _)
wordEnd(s, i) ==
    IF i <= Len(s) /\ IsWordChar(s[i]) THEN wordEnd(s, i + 1) ELSE i

RECURSIVE skipZeros(_)
skipZeros(ds) ==
    IF ds # <<>> /\ Head(ds) = "0" THEN skipZeros(Tail(ds)) ELSE ds

\* the value of a numeral: leading zeros are skipped and the digits after
\* the ninth are read and left out of the value
ReadUnsignedNumeral(ds) ==
    LET sig == skipZeros(ds)
    IN  numberOf(SubSeq(sig, 1,
            IF Len(sig) < kMaxSignificantDigits
            THEN Len(sig) ELSE kMaxSignificantDigits))

\* the position after a parenthesized text that begins at i, or the end of
\* the input if it is not closed
RECURSIVE SkipParentheses(_, _, _)
SkipParentheses(s, i, balance) ==
    LET b == IF s[i] = ")" THEN balance - 1
             ELSE IF s[i] = "(" THEN balance + 1
             ELSE balance
    IN  IF b > 0 /\ i + 1 <= Len(s) /\ s[i + 1] # "U+0000"
        THEN SkipParentheses(s, i + 1, b)
        ELSE i + 1

\* the tokens of s from position i on, EndOfInput last; the input ends
\* with the text or at U+0000, whichever is first
RECURSIVE Scan(_, _)
Scan(s, i) ==
    IF i > Len(s) \/ s[i] = "U+0000"
    THEN << EndOfInput >>
    ELSE IF isDigit(s[i])
    THEN LET j == digitsEnd(s, i)
         IN  << Token("number", "", "",
                      ReadUnsignedNumeral(SubSeq(s, i, j - 1)), j - i) >>
                 \o Scan(s, j)
    ELSE IF s[i] \in {":", "-", "+", ".", ")"}
    THEN << Token("symbol", "", s[i], 0, 1) >> \o Scan(s, i + 1)
    ELSE IF IsWordChar(s[i])
    THEN LET j == wordEnd(s, i)
             k == Lookup(SubSeq(s, i, j - 1))
         IN  << Token("keyword", k.type, "", k.value, j - i) >> \o Scan(s, j)
    ELSE IF s[i] \in WhiteSpace
    THEN << Token("whitespace", "", "", 0, 1) >> \o Scan(s, i + 1)
    ELSE IF s[i] = "("
    THEN << UnknownToken >> \o Scan(s, SkipParentheses(s, i, 0))
    ELSE << UnknownToken >> \o Scan(s, i + 1)

\* the token the scanner shows when it stands at position p of toks
Peek(toks, p) == toks[IF p < Len(toks) THEN p ELSE Len(toks)]

IsMonth(x) == x \in 1..12

IsDay(x) == x \in 1..31

IsHour(x) == x \in 0..23

IsMinute(x) == x \in 0..59

IsSecond(x) == x \in 0..59

RECURSIVE tenTo(_)
tenTo(k) == IF k = 0 THEN 1 ELSE 10 * tenTo(k - 1)

\* the milliseconds a fraction of a second stands for: its first three
\* digits, the rest cut off
ReadMilliseconds(t) ==
    IF t.len = 1 THEN t.value * 100
    ELSE IF t.len = 2 THEN t.value * 10
    ELSE IF t.len > 3
    THEN t.value \div tenTo((IF t.len > kMaxSignificantDigits
                             THEN kMaxSignificantDigits ELSE t.len) - 3)
    ELSE t.value

\* the parser before the first token: the day, time and zone composers are
\* empty; tok is the token in hand and p the scanner's position
ParserStart ==
    [ day           |-> <<>>,
      namedMonth    |-> kNone,
      isIsoDate     |-> FALSE,
      time          |-> <<>>,
      hourOffset    |-> kNone,
      tzSign        |-> kNone,
      tzHour        |-> kNone,
      tzMinute      |-> kNone,
      hasReadNumber |-> FALSE,
      ok            |-> TRUE,
      tok           |-> EndOfInput,
      p             |-> 1 ]

\* the parse has failed: the Date is invalid
Invalid(c) == [c EXCEPT !.ok = FALSE]

\* scanner.Next(): take the token the scanner shows
TakeNext(toks, c) == [c EXCEPT !.tok = Peek(toks, c.p), !.p = c.p + 1]

\* TimeZoneComposer::Set
TzSet(c, hours) ==
    [c EXCEPT !.tzSign   = IF hours < 0 THEN -1 ELSE 1,
              !.tzHour   = IF hours < 0 THEN -hours ELSE hours,
              !.tzMinute = 0]

\* the text was a date-time string: a date alone is UTC, a date and time
\* without zone is local time
ES5Success(c) ==
    LET z == IF c.tzHour = kNone /\ c.time = <<>> THEN TzSet(c, 0) ELSE c
    IN  [z EXCEPT !.isIsoDate = TRUE, !.tok = EndOfInput]

\* nothing may follow the time and zone
ES5End(toks, c) ==
    IF IsEndOfInput(Peek(toks, c.p)) THEN ES5Success(c) ELSE Invalid(c)

\* the optional zone of a date-time string: Z, +hh:mm, -hh:mm or hhmm
ES5Zone(toks, c) ==
    LET t == Peek(toks, c.p)
        u == Peek(toks, c.p + 1)
        v == Peek(toks, c.p + 3)
        s == [c EXCEPT !.tzSign = ascii_sign(t)]
    IN  IF IsKeywordZ(t)
        THEN ES5End(toks, TzSet([c EXCEPT !.p = c.p + 1], 0))
        ELSE IF ~IsAsciiSign(t)
        THEN ES5End(toks, c)
        ELSE IF IsFixedNumber(u, 4)
        THEN IF ~IsHour(u.value \div 100) \/ ~IsMinute(u.value % 100)
             THEN Invalid(c)
             ELSE ES5End(toks, [s EXCEPT !.tzHour   = u.value \div 100,
                                         !.tzMinute = u.value % 100,
                                         !.p        = c.p + 2])
        ELSE IF ~IsFixedNumber(u, 2) \/ ~IsHour(u.value)
        THEN Invalid(c)
        ELSE IF ~IsSymbol(Peek(toks, c.p + 2), ":")
        THEN Invalid(c)
        ELSE IF ~IsFixedNumber(v, 2) \/ ~IsMinute(v.value)
        THEN Invalid(c)
        ELSE ES5End(toks, [s EXCEPT !.tzHour   = u.value,
                                    !.tzMinute = v.value,
                                    !.p        = c.p + 4])

\* the time of a date-time string after its T: HH:mm[:ss[.sss]], where the
\* hour 24 is the end of the day
ES5Time(toks, c) ==
    LET p    == c.p
        h    == Peek(toks, p)
        m    == Peek(toks, p + 2)
        s    == Peek(toks, p + 4)
        f    == Peek(toks, p + 6)
        is24 == h.value = 24
    IN  IF ~IsFixedNumber(h, 2) \/ h.value \notin 0..24
        THEN Invalid(c)
        ELSE IF ~IsSymbol(Peek(toks, p + 1), ":")
        THEN Invalid(c)
        ELSE IF ~IsFixedNumber(m, 2) \/ ~IsMinute(m.value)
                    \/ (is24 /\ m.value > 0)
        THEN Invalid(c)
        ELSE IF ~IsSymbol(Peek(toks, p + 3), ":")
        THEN ES5Zone(toks, [c EXCEPT !.time = << h.value, m.value >>,
                                     !.p    = p + 3])
        ELSE IF ~IsFixedNumber(s, 2) \/ ~IsSecond(s.value)
                    \/ (is24 /\ s.value > 0)
        THEN Invalid(c)
        ELSE IF ~IsSymbol(Peek(toks, p + 5), ".")
        THEN ES5Zone(toks, [c EXCEPT
                               !.time = << h.value, m.value, s.value >>,
                               !.p    = p + 5])
        ELSE IF ~IsNumber(f) \/ (is24 /\ f.value > 0)
        THEN Invalid(c)
        ELSE ES5Zone(toks, [c EXCEPT
                               !.time = << h.value, m.value, s.value,
                                           ReadMilliseconds(f) >>,
                               !.p    = p + 7])

\* after the date of a date-time string: the end, a T and the time, or a
\* token for the legacy rules
ES5TimePart(toks, c) ==
    IF IsKeywordType(Peek(toks, c.p), "TIME_SEPARATOR")
    THEN ES5Time(toks, [c EXCEPT !.p = c.p + 1])
    ELSE IF IsEndOfInput(Peek(toks, c.p))
    THEN ES5Success(c)
    ELSE TakeNext(toks, c)

\* after the year of a date-time string: [-MM[-DD]]
ES5MonthDay(toks, c) ==
    LET mo == Peek(toks, c.p + 1)
        d  == Peek(toks, c.p + 3)
        c2 == [c EXCEPT !.day = Append(@, mo.value), !.p = c.p + 2]
    IN  IF ~IsSymbol(Peek(toks, c.p), "-")
        THEN ES5TimePart(toks, c)
        ELSE IF ~IsFixedNumber(mo, 2) \/ ~IsMonth(mo.value)
        THEN TakeNext(toks, [c EXCEPT !.p = c.p + 1])
        ELSE IF ~IsSymbol(Peek(toks, c2.p), "-")
        THEN ES5TimePart(toks, c2)
        ELSE IF ~IsFixedNumber(d, 2) \/ ~IsDay(d.value)
        THEN TakeNext(toks, [c2 EXCEPT !.p = c2.p + 1])
        ELSE ES5TimePart(toks, [c2 EXCEPT !.day = Append(@, d.value),
                                          !.p   = c2.p + 2])

\* read toks as far as they are a date-time string; tok is then the first
\* token left for the legacy rules (EndOfInput if none), and a number has
\* been read if the year has
ParseES5DateTime(toks) ==
    LET t == Peek(toks, 1)
        u == Peek(toks, 2)
    IN  IF IsAsciiSign(t)
        THEN IF ~IsFixedNumber(u, 6)
             THEN TakeNext(toks, ParserStart)
             ELSE IF ascii_sign(t) < 0 /\ u.value = 0
             THEN [ParserStart EXCEPT !.tok = UnknownToken, !.p = 3]
             ELSE ES5MonthDay(toks,
                      [ParserStart EXCEPT
                          !.day           = << ascii_sign(t) * u.value >>,
                          !.hasReadNumber = TRUE,
                          !.p             = 3])
        ELSE IF IsFixedNumber(t, 4)
        THEN ES5MonthDay(toks,
                 [ParserStart EXCEPT !.day           = << t.value >>,
                                     !.hasReadNumber = TRUE,
                                     !.p             = 2])
        ELSE TakeNext(toks, ParserStart)

\* TimeComposer::IsExpecting
TimeIsExpecting(time, n) ==
    \/ Len(time) = 1 /\ IsMinute(n)
    \/ Len(time) = 2 /\ IsSecond(n)
    \/ Len(time) = 3 /\ n \in 0..999

\* TimeComposer::AddFinal: n is the last component, the rest are 0
AddFinal(time, n) ==
    IF Len(time) >= 4
    THEN time
    ELSE [i \in 1..4 |->
             IF i <= Len(time) THEN time[i]
             ELSE IF i = Len(time) + 1 THEN n
             ELSE 0]

\* the legacy rules for a number: before ":" it is a component of the
\* time, after the hour of a zone its minute, after the time's last colon
\* the time's last component, and otherwise a component of the day
LegacyNumber(toks, c) ==
    LET n   == c.tok.value
        p   == c.p
        r   == [c EXCEPT !.hasReadNumber = TRUE]
        dot == IsSymbol(Peek(toks, p), ".")
        q   == IF dot THEN p + 1 ELSE p
    IN  IF IsSymbol(Peek(toks, p), ":")
        THEN IF IsSymbol(Peek(toks, p + 1), ":")
             THEN IF c.time # <<>>
                  THEN Invalid(r)
                  ELSE [r EXCEPT !.time = << n, 0 >>, !.p = p + 2]
             ELSE IF Len(c.time) >= 4
                  THEN Invalid(r)
                  ELSE [r EXCEPT !.time = Append(@, n),
                                 !.p    = IF IsSymbol(Peek(toks, p + 1), ".")
                                          THEN p + 2 ELSE p + 1]
        ELSE IF dot /\ TimeIsExpecting(c.time, n)
        THEN IF ~IsNumber(Peek(toks, q))
             THEN Invalid(r)
             ELSE [r EXCEPT !.time = AddFinal(Append(c.time, n),
                                         ReadMilliseconds(Peek(toks, q))),
                            !.p    = q + 1]
        ELSE IF c.tzHour # kNone /\ c.tzMinute = kNone /\ IsMinute(n)
        THEN [r EXCEPT !.tzMinute = n, !.p = q]
        ELSE IF TimeIsExpecting(c.time, n)
        THEN IF \/ IsEndOfInput(Peek(toks, q))
                \/ Peek(toks, q).tag = "whitespace"
                \/ IsKeywordZ(Peek(toks, q))
                \/ IsAsciiSign(Peek(toks, q))
             THEN [r EXCEPT !.time = AddFinal(c.time, n), !.p = q]
             ELSE Invalid(r)
        ELSE IF Len(c.day) >= 3
        THEN Invalid(r)
        ELSE [r EXCEPT !.day = Append(@, n),
                       !.p   = IF IsSymbol(Peek(toks, q), "-")
                               THEN q + 1 ELSE q]

\* the legacy rules for a word: AM or PM after a time, a month name, a zone
\* name after a number; any other word is allowed before the first number
\* only, and not right before it
LegacyKeyword(toks, c) ==
    IF c.tok.type = "AM_PM" /\ c.time # <<>>
    THEN [c EXCEPT !.hourOffset = c.tok.value]
    ELSE IF c.tok.type = "MONTH_NAME"
    THEN [c EXCEPT !.namedMonth = c.tok.value,
                   !.p = IF IsSymbol(Peek(toks, c.p), "-")
                         THEN c.p + 1 ELSE c.p]
    ELSE IF c.tok.type = "TIME_ZONE_NAME" /\ c.hasReadNumber
    THEN TzSet(c, c.tok.value)
    ELSE IF c.hasReadNumber \/ IsNumber(Peek(toks, c.p))
    THEN Invalid(c)
    ELSE c

\* the legacy rules for a sign after UTC or after a time: the offset of a
\* zone, as h, hh, hmm, hhmm or hh:
LegacySign(toks, c) ==
    LET t      == Peek(toks, c.p)
        n      == IF IsNumber(t) THEN t.value ELSE 0
        length == IF IsNumber(t) THEN t.len ELSE 0
        q      == IF IsNumber(t) THEN c.p + 1 ELSE c.p
        r      == [c EXCEPT !.tzSign        = ascii_sign(c.tok),
                            !.hasReadNumber = TRUE,
                            !.p             = q]
    IN  IF IsSymbol(Peek(toks, q), ":")
        THEN [r EXCEPT !.tzHour = n, !.tzMinute = kNone]
        ELSE IF length \in {1, 2}
        THEN [r EXCEPT !.tzHour = n, !.tzMinute = 0]
        ELSE IF length \in {3, 4}
        THEN [r EXCEPT !.tzHour = n \div 100, !.tzMinute = n % 100]
        ELSE Invalid(r)

\* the legacy rules for the token in hand
LegacyToken(toks, c) ==
    IF IsNumber(c.tok)
    THEN LegacyNumber(toks, c)
    ELSE IF c.tok.tag = "keyword"
    THEN LegacyKeyword(toks, c)
    ELSE IF IsAsciiSign(c.tok)
                /\ ((c.tzHour = 0 /\ c.tzMinute = 0) \/ c.time # <<>>)
    THEN LegacySign(toks, c)
    ELSE IF (IsAsciiSign(c.tok) \/ IsSymbol(c.tok, ")")) /\ c.hasReadNumber
    THEN Invalid(c)
    ELSE c

\* the legacy rules, token after token until the end of the input
RECURSIVE LegacyLoop(_, _)
LegacyLoop(toks, c) ==
    IF ~c.ok \/ IsEndOfInput(c.tok)
    THEN c
    ELSE LegacyLoop(toks, TakeNext(toks, LegacyToken(toks, c)))

\* DayComposer::Write: the year, month and day the numbers read stand for
DayWrite(c) ==
    LET comp  == [i \in 1..3 |-> IF i <= Len(c.day) THEN c.day[i] ELSE 1]
        ymd   == IF c.namedMonth = kNone
                 THEN IF c.isIsoDate \/ ~IsDay(comp[1])
                      THEN << comp[1], comp[2], comp[3] >>
                      ELSE << comp[3], comp[1], comp[2] >>
                 ELSE IF ~IsDay(comp[1])
                      THEN << comp[1], c.namedMonth, comp[2] >>
                      ELSE << comp[2], c.namedMonth, comp[1] >>
        year  == IF c.isIsoDate THEN ymd[1]
                 ELSE IF ymd[1] \in 0..49 THEN ymd[1] + 2000
                 ELSE IF ymd[1] \in 50..99 THEN ymd[1] + 1900
                 ELSE ymd[1]
    IN  [ ok    |-> Len(c.day) >= 1 /\ IsMonth(ymd[2]) /\ IsDay(ymd[3]),
          year  |-> year,
          month |-> ymd[2],
          day   |-> ymd[3] ]

\* TimeComposer::Write: the milliseconds into the day the numbers read
\* stand for; refused unless they are a time of the day or 24:00:00.000
TimeWrite(c) ==
    LET comp   == [i \in 1..4 |-> IF i <= Len(c.time) THEN c.time[i] ELSE 0]
        hour   == IF c.hourOffset = kNone
                  THEN comp[1]
                  ELSE (comp[1] % 12) + c.hourOffset
        inDay  == IsHour(hour) /\ IsMinute(comp[2]) /\ IsSecond(comp[3])
                      /\ comp[4] \in 0..999
        endDay == hour = 24 /\ comp[2] = 0 /\ comp[3] = 0 /\ comp[4] = 0
    IN  IF (c.hourOffset = kNone \/ comp[1] \in 0..12) /\ (inDay \/ endDay)
        THEN [ ok |-> TRUE,
               ms |-> ((hour * 60 + comp[2]) * 60 + comp[3]) * 1000 + comp[4] ]
        ELSE [ ok |-> FALSE, ms |-> 0 ]

\* TimeZoneComposer::Write: the offset in seconds, none if no zone was
\* read.  The seconds are computed in unsigned 32-bit arithmetic, here on
\* the two 16-bit halves, and must not exceed 2^31 - 1.
TzWrite(c) ==
    LET hour   == IF c.tzHour = kNone THEN 0 ELSE c.tzHour
        minute == IF c.tzMinute = kNone THEN 0 ELSE c.tzMinute
        low    == (hour % 65536) * 3600 + minute * 60
        high   == ((((hour \div 65536) * 3600) % 65536) + (low \div 65536))
                      % 65536
        total  == high * 65536 + (low % 65536)
    IN  IF c.tzSign = kNone
        THEN [ ok |-> TRUE, local |-> TRUE, seconds |-> 0 ]
        ELSE [ ok      |-> high < 32768,
               local   |-> FALSE,
               seconds |-> IF high < 32768 THEN c.tzSign * total ELSE 0 ]

\* TimeClip: a time value beyond 100000000 days (8.64e15 ms) from the
\* epoch is NaN
TimeClip(t) ==
    IF t[1] \in (-100000000)..99999999 \/ t = << 100000000, 0 >>
    THEN t
    ELSE NaN

\* MakeDate(MakeDay, MakeTime) of the day and time read, taken as local
\* time or moved by the zone's offset; NaN if a composer has refused or
\* the year is not one MakeDay accepts
MakeDate(ok, day, time, tz, tzOffset) ==
    IF ~ok \/ ~day.ok \/ ~time.ok \/ ~tz.ok
    THEN NaN
    ELSE IF day.year \notin (-1000000)..1000000
    THEN NaN
    ELSE IF tz.local
    THEN TimeClip(timeValue(daysFromCivil(day.year, day.month, day.day),
                            time.ms + tzOffset * MsPerMinute))
    ELSE TimeClip(timeValue(daysFromCivil(day.year, day.month, day.day)
                                - (tz.seconds \div 86400),
                            time.ms - (tz.seconds % 86400) * 1000))

\* the time value of what the parser has read
ComposeDate(c, tzOffset) ==
    MakeDate(c.ok, DayWrite(c), TimeWrite(c), TzWrite(c), tzOffset)

\* the parser on the tokens of a text
Parse(toks, tzOffset) ==
    ComposeDate(LegacyLoop(toks, ParseES5DateTime(toks)), tzOffset)

\* new Date(s).getTime() where the local zone is tzOffset minutes behind
\* UTC (the value of getTimezoneOffset())
dateParse(s, tzOffset) == Parse(Scan(s, 1), tzOffset)

\* Date.prototype.toISOString().slice(0, 10): the first ten characters of
\* the UTC date and time, "YYYY-MM-DD" for the years 0 to 9999 and the
\* sign, six digits of year and month otherwise
isoDate(t) ==
    LET c == civilFromDays(t[1])
        a == IF c[1] < 0 THEN -c[1] ELSE c[1]
    IN  IF c[1] \in 0..9999
        THEN pad4(c[1]) \o << "-" >> \o pad2(c[2]) \o << "-" >> \o pad2(c[3])
        ELSE << IF c[1] < 0 THEN "-" ELSE "+" >> \o pad2(a \div 10000)
                 \o pad4(a % 10000) \o << "-" >> \o pad2(c[2])

WeekdayNames ==
    << "Sunday", "Monday", "Tuesday", "Wednesday", "Thursday", "Friday",
       "Saturday" >>

MonthNames ==
    << "January", "February", "March", "April", "May", "June", "July",
       "August", "September", "October", "November", "December" >>

\* Date.prototype.toLocaleDateString('en-US', {weekday: 'long', year:
\* 'numeric', month: 'long', day: 'numeric'}), as the parts of the text
\* "Friday, March 15, 2024": the date in the local zone
toLocaleDateString(t, tzOffset) ==
    LET local == timeValue(t[1], t[2] - tzOffset * MsPerMinute)
        c     == civilFromDays(local[1])
    IN  [ weekday |-> WeekdayNames[((local[1] + 4) % 7) + 1],
          month   |-> MonthNames[c[2]],
          day     |-> c[3],
          year    |-> c[1] ]

(***************************************************************************)
(* The page: the elements the script writes (src/script.js lines 7-17).    *)
(* The markup itself is not part of the script; before the first write an  *)
(* element holds InitialText, and the empty-state element no inline style. *)
(***************************************************************************)
InitialText == <<>>

InitialDisplay ==
    [ currentDate    |-> [ weekday |-> "", month |-> "", day |-> 0, year |-> 0 ],
      countToday     |-> InitialText,
      hygienePercent |-> InitialText,
      hygieneClass   |-> "",
      lastWorker     |-> InitialText,
      lastTime       |-> InitialText,
      tableBody      |-> <<>>,
      emptyDisplay   |-> "",
      emptyContent   |-> "" ]

\* "None"
NoneText == << "N", "o", "n", "e" >>

\* "No activity yet"
NoActivityText ==
    << "N", "o", " ", "a", "c", "t", "i", "v", "i", "t", "y", " ",
       "y", "e", "t" >>

\* "name" and "timestamp", the keys of the header lookup
NameKey == << "n", "a", "m", "e" >>

TimestampKey == << "t", "i", "m", "e", "s", "t", "a", "m", "p" >>

WaitingHTML ==
    "<p><strong>Waiting for Data Connection</strong></p><p>Ensure 'LoginInfo.csv' is generated and access via a local server.</p>"

NoRecordsText == "No hand washing records found for today."

\* what an element's textContent becomes when v is assigned to it: the
\* value undefined is converted to null, which empties the element
textContent(v) == IF v = Undefined THEN <<>> ELSE v

\* `${v}` in a template literal
templateText(v) ==
    IF v = Undefined
    THEN << "u", "n", "d", "e", "f", "i", "n", "e", "d" >>
    ELSE v

\* updateDate
updateDate(d, now, tzOffset) ==
    [d EXCEPT !.currentDate = toLocaleDateString(now, tzOffset)]

\* A Number above zero, in IEEE 754 double precision, is [ exp, bits ]:
\* bits the 53 binary digits of its significand, the leading 1 first, and
\* exp the exponent of that first digit, so that the value is the sum of
\* bits[i] * 2^(exp + 1 - i).  Zero has no digits.
\*
\* the Number nearest to an exact value above zero, a tie going to the even
\* significand: exact holds the binary digits of the value from its leading
\* 1 on, 54 of them or more, the last one standing for all the digits after
\* it (1 if one of them is 1); exp is the exponent of the first digit
roundTiesToEven(exact, exp) ==
    LET RECURSIVE increment(_)
        increment(b) ==
            IF b = <<>> THEN << 1 >>
            ELSE IF b[Len(b)] = 0 THEN [b EXCEPT ![Len(b)] = 1]
            ELSE Append(increment(SubSeq(b, 1, Len(b) - 1)), 0)
        keep == SubSeq(exact, 1, 53)
        up   == /\ exact[54] = 1
                /\ keep[53] = 1 \/ \E i \in 55..Len(exact) : exact[i] = 1
    IN  IF ~up
        THEN [ exp |-> exp, bits |-> keep ]
        ELSE IF Len(increment(keep)) = 54
        THEN [ exp |-> exp + 1, bits |-> SubSeq(increment(keep), 1, 53) ]
        ELSE [ exp |-> exp, bits |-> increment(keep) ]

\* n / d for a natural n and a positive natural d: the Number nearest to
\* the quotient
divide(n, d) ==
    LET RECURSIVE exponent(_, _)
        \* the e with 2^e <= a / b < 2^(e + 1)
        exponent(a, b) ==
            IF a >= 2 * b THEN exponent(a, 2 * b) + 1
            ELSE IF a < b THEN exponent(2 * a, b) - 1
            ELSE 0
        RECURSIVE digits(_, _, _)
        \* the first k binary digits of r / b after the point, r < b, and one
        \* more digit for what is left
        digits(r, b, k) ==
            IF k = 0 THEN << IF r > 0 THEN 1 ELSE 0 >>
            ELSE IF 2 * r >= b THEN << 1 >> \o digits(2 * r - b, b, k - 1)
            ELSE << 0 >> \o digits(2 * r, b, k - 1)
        scaled(e) ==
            IF e < 0 THEN << n * 2^(-e), d >> ELSE << n, d * 2^e >>
    IN  IF n = 0
        THEN [ exp |-> 0, bits |-> <<>> ]
        ELSE roundTiesToEven(
                 << 1 >> \o digits(scaled(exponent(n, d))[1]
                                       - scaled(exponent(n, d))[2],
                                   scaled(exponent(n, d))[2], 53),
                 exponent(n, d))

\* x * k for a Number x and a positive natural k: the Number nearest to the
\* product
times(x, k) ==
    LET RECURSIVE binary(_)
        binary(m) == IF m = 0 THEN <<>> ELSE Append(binary(m \div 2), m % 2)
        RECURSIVE product(_, _)
        \* the digits of b * k + carry
        product(b, carry) ==
            IF b = <<>> THEN binary(carry)
            ELSE IF (b[Len(b)] * k + carry) % 2 = 0
            THEN Append(product(SubSeq(b, 1, Len(b) - 1),
                                (b[Len(b)] * k + carry) \div 2), 0)
            ELSE Append(product(SubSeq(b, 1, Len(b) - 1),
                                (b[Len(b)] * k + carry) \div 2), 1)
        p == product(x.bits, 0)
    IN  IF x.bits = <<>>
        THEN x
        ELSE roundTiesToEven(Append(p, 0), x.exp + Len(p) - 53)

\* Math.round of a Number below 2^31: the nearest integer, the upper one
\* of two that are equally near
MathRound(x) ==
    LET RECURSIVE integer(_)
        integer(b) ==
            IF b = <<>> THEN 0
            ELSE 2 * integer(SubSeq(b, 1, Len(b) - 1)) + b[Len(b)]
    IN  IF x.bits = <<>> \/ x.exp < -1
        THEN 0
        ELSE integer(SubSeq(x.bits, 1, x.exp + 1)) + x.bits[x.exp + 2]

\* Math.min(100, Math.round((count / TOTAL_WORKERS_ESTIMATE) * 100)), the
\* estimate being total: the quotient and the product are each rounded to
\* a Number before Math.round sees them
percentOf(count, total) ==
    LET r == MathRound(times(divide(count, total), 100))
    IN  IF r < 100 THEN r ELSE 100

\* the class list of the percentage element after the colour coding
complianceClass(percent) ==
    IF percent >= 80 THEN "stat-value compliance-high"
    ELSE IF percent >= 50 THEN "stat-value compliance-med"
    ELSE "stat-value compliance-low"

\* updateDashboardStats, TOTAL_WORKERS_ESTIMATE being total
updateDashboardStats(d, total, count, lastWorker, lastTime) ==
    [d EXCEPT !.countToday     = numberToString(count),
              !.hygienePercent =
                  numberToString(percentOf(count, total)) \o << "%" >>,
              !.hygieneClass   = complianceClass(percentOf(count, total)),
              !.lastWorker     = textContent(lastWorker),
              !.lastTime       = textContent(lastTime)]

\* data.sort((a, b) => b.isoTime - a.isoTime): descending, and stable
RECURSIVE sortByTimeDesc(_)
sortByTimeDesc(data) ==
    IF data = <<>>
    THEN <<>>
    ELSE LET x      == data[Len(data)]
             sorted == sortByTimeDesc(SubSeq(data, 1, Len(data) - 1))
             ahead  == Cardinality({i \in 1..Len(sorted) :
                           ~greaterThan(x.isoTime, sorted[i].isoTime)})
         IN  SubSeq(sorted, 1, ahead) \o << x >>
                 \o SubSeq(sorted, ahead + 1, Len(sorted))

\* one <tr> of the table: name, time of day, date
tableRow(row) ==
    LET pieces == split(row.timestamp, " ")
    IN  [ name |-> templateText(row.name),
          time |-> IF Len(pieces) >= 2 /\ pieces[2] # <<>>
                   THEN pieces[2]
                   ELSE row.timestamp,
          date |-> row.date ]

updateTable(d, data) ==
    LET sorted == sortByTimeDesc(data)
    IN  IF Len(data) = 0
        THEN [d EXCEPT !.tableBody    = <<>>,
                       !.emptyDisplay = "block",
                       !.emptyContent = NoRecordsText]
        ELSE [d EXCEPT !.tableBody    =
                           [i \in 1..Len(sorted) |-> tableRow(sorted[i])],
                       !.emptyDisplay = "none"]

\* parseCSVLine
parseCSVLine(text) ==
    LET items == split(text, ",")
    IN  [i \in 1..Len(items) |-> trim(items[i])]

matchesTodayByMonth(timestampStr, today) ==
    SubSeq(split(timestampStr, " ")[1], 1, 7) = SubSeq(today, 1, 7)

\* simpleDatePart === today
matchesToday(timestampStr, today) == split(timestampStr, " ")[1] = today

\* the locals of processCSV before the first row
LoopStart ==
    [ threw              |-> FALSE,
      data               |-> <<>>,
      uniqueWorkersToday |-> {},
      rawLastTime        |-> TimeZero,
      lastWorkerName     |-> NoneText,
      lastWorkerTime     |-> NoActivityText ]

\* the row's entry of today's data, if its date part is today
pushToday(acc, name, timestampStr, entryDate, today) ==
    IF matchesToday(timestampStr, today)
    THEN [acc EXCEPT
            !.data = Append(@,
                [ name      |-> name,
                  timestamp |-> timestampStr,
                  date      |-> split(timestampStr, " ")[1],
                  isoTime   |-> entryDate ]),
            !.uniqueWorkersToday = @ \cup {name}]
    ELSE acc

\* the last access, moved to the row if its time is greater
lastAccess(acc, name, timestampStr, entryDate) ==
    IF greaterThan(entryDate, acc.rawLastTime)
    THEN [acc EXCEPT !.rawLastTime    = entryDate,
                     !.lastWorkerName = name,
                     !.lastWorkerTime = timestampStr]
    ELSE acc

\* a row whose timestamp has been parsed: an invalid date is skipped;
\* toISOString throws a RangeError when the entry's time moved to the local
\* zone is no time value (entryDateLocal)
rowDated(acc, name, timestampStr, entryDate, today, tzOffset) ==
    IF entryDate = NaN
    THEN acc
    ELSE IF TimeClip(timeValue(entryDate[1],
                               entryDate[2] - tzOffset * MsPerMinute)) = NaN
    THEN [acc EXCEPT !.threw = TRUE]
    ELSE lastAccess(pushToday(acc, name, timestampStr, entryDate, today),
                    name, timestampStr, entryDate)

\* a row split into parts; timestampStr.replace throws a TypeError when the
\* row has no field at timeIdx
rowParts(acc, parts, nameIdx, timeIdx, today, tzOffset) ==
    IF Len(parts) < 2 THEN acc
    ELSE IF At(parts, timeIdx) = Undefined THEN [acc EXCEPT !.threw = TRUE]
    ELSE rowDated(acc, At(parts, nameIdx), At(parts, timeIdx),
                  dateParse(replaceFirst(At(parts, timeIdx), " ", "T"),
                            tzOffset),
                  today, tzOffset)

\* one pass of the row loop of processCSV
rowStep(acc, rowUTC, nameIdx, timeIdx, today, tzOffset) ==
    IF acc.threw \/ trim(rowUTC) = <<>>
    THEN acc
    ELSE rowParts(acc, parseCSVLine(rowUTC), nameIdx, timeIdx, today,
                  tzOffset)

RECURSIVE rowLoop(_, _, _, _, _, _, _)
rowLoop(acc, lines, i, nameIdx, timeIdx, today, tzOffset) ==
    IF i > Len(lines)
    THEN acc
    ELSE rowLoop(rowStep(acc, lines[i], nameIdx, timeIdx, today, tzOffset),
                 lines, i + 1, nameIdx, timeIdx, today, tzOffset)

\* the header labels, trimmed and lower-cased
headersOf(cells) == [i \in 1..Len(cells) |-> toLowerCase(trim(cells[i]))]

\* the end of processCSV once the rows have been read
renderRows(d, acc) ==
    IF acc.threw
    THEN [ result |-> "threw", display |-> d ]
    ELSE [ result  |-> "rendered",
           display |-> updateTable(
               updateDashboardStats(d, TOTAL_WORKERS_ESTIMATE,
                                    Cardinality(acc.uniqueWorkersToday),
                                    acc.lastWorkerName, acc.lastWorkerTime),
               acc.data) ]

\* processCSV once the header labels have been read
processHeaders(d, lines, headers, today, tzOffset) ==
    IF findIndex(headers, NameKey) = -1 \/ findIndex(headers, TimestampKey) = -1
    THEN [ result |-> "returned", display |-> d ]
    ELSE renderRows(d,
             rowLoop(LoopStart, lines, 2, findIndex(headers, NameKey),
                     findIndex(headers, TimestampKey), today, tzOffset))

\* processCSV on the lines of the text
processLines(d, lines, today, tzOffset) ==
    IF Len(lines) < 2
    THEN [ result |-> "returned", display |-> d ]
    ELSE processHeaders(d, lines, headersOf(split(lines[1], ",")), today,
                        tzOffset)

\* processCSV on display d: result says how it ended ("returned" early,
\* "rendered", or "threw"), display is the page afterwards
processCSV(d, csvText, now, tzOffset) ==
    processLines(d, split(trim(csvText), "\n"), isoDate(now), tzOffset)

catchHandlerClearing(d) ==
    [d EXCEPT !.emptyDisplay = "block",
              !.emptyContent = WaitingHTML,
              !.tableBody    = <<>>]

\* the catch block of fetchData
catchHandler(d) ==
    [d EXCEPT !.emptyDisplay = "block", !.emptyContent = WaitingHTML]

\* fetchData after processCSV has ended as r on page d: the empty state is
\* hidden, or, if processCSV threw, the catch block runs
afterProcessCSV(d, r) ==
    IF r.result = "threw"
    THEN catchHandler(d)
    ELSE [r.display EXCEPT !.emptyDisplay = "none"]

\* fetchData from the point where response.text() has resolved with
\* csvText
afterText(d, csvText, now, tzOffset) ==
    afterProcessCSV(d, processCSV(d, csvText, now, tzOffset))

(***************************************************************************)
(* The environment: the browser's zone and clock, and the documents the    *)
(* collector leaves in LoginInfo.csv.  A document is kept in structured    *)
(* form (a header layout and rows of name, timestamp and field count) and  *)
(* written out as the text the script receives.                            *)
(***************************************************************************)
\* values of getTimezoneOffset(): UTC, five hours behind UTC and two hours
\* ahead of UTC
ZoneOffsets == {0, 300, -120}

\* the instants new Date() can return during a run, in order: 02:00 and
\* 23:00 UTC of 15 March 2024 (the local date is the 14th at the first in
\* the zone behind UTC, and the 16th at the second in the zone ahead)
Instants ==
    << timeValue(daysFromCivil(2024, 3, 15), 2 * 60 * MsPerMinute),
       timeValue(daysFromCivil(2024, 3, 15), 23 * 60 * MsPerMinute) >>

Alice == << "A", "l", "i", "c", "e" >>

Bob == << "B", "o", "b" >>

Carol == << "C", "a", "r", "o", "l" >>

\* "not-a-date"
NotADate == << "n", "o", "t", "-", "a", "-", "d", "a", "t", "e" >>

\* a timestamp the collector wrote: the civil time <<y, m, d, h, min, s>>
stamp(civil) ==
    [ valid |-> TRUE, dateOnly |-> FALSE, civil |-> civil, junk |-> <<>> ]

\* a timestamp field that is no date
junkStamp(text) ==
    [ valid |-> FALSE, dateOnly |-> FALSE, civil |-> << 0, 0, 0, 0, 0, 0 >>,
      junk |-> text ]

\* the date part the collector writes, YYYY-MM-DD
stampDateText(st) ==
    pad4(st.civil[1]) \o << "-" >> \o pad2(st.civil[2]) \o << "-" >>
        \o pad2(st.civil[3])

\* the timestamp field as written: YYYY-MM-DD HH:MM:SS, or YYYY-MM-DD
stampText(st) ==
    IF st.valid /\ st.dateOnly
    THEN stampDateText(st)
    ELSE IF st.valid
    THEN stampDateText(st) \o << " " >> \o pad2(st.civil[4]) \o << ":" >>
             \o pad2(st.civil[5]) \o << ":" >> \o pad2(st.civil[6])
    ELSE st.junk

row(name, st) == [ blank |-> FALSE, name |-> name, stamp |-> st, short |-> FALSE ]

BlankRow ==
    [ blank |-> TRUE, name |-> <<>>, stamp |-> junkStamp(<<>>), short |-> FALSE ]

AliceToday == row(Alice, stamp(<< 2024, 3, 15, 8, 0, 0 >>))

BobToday == row(Bob, stamp(<< 2024, 3, 15, 8, 5, 0 >>))

BobTodayTie == row(Bob, stamp(<< 2024, 3, 15, 8, 0, 0 >>))

AliceYesterday == row(Alice, stamp(<< 2024, 3, 14, 9, 0, 0 >>))

CarolJunk == row(Carol, junkStamp(NotADate))

BobLongAgo == row(Bob, stamp(<< 1969, 12, 31, 23, 0, 0 >>))

\* a line cut off before its last field
AliceShort == [AliceToday EXCEPT !.short = TRUE]

\* a timestamp written as a date alone
CarolDateOnly ==
    row(Carol, [stamp(<< 2024, 3, 15, 0, 0, 0 >>) EXCEPT !.dateOnly = TRUE])

\* the data lines a document is made of
RowKinds ==
    { AliceToday, BobToday, BobTodayTie, AliceYesterday, CarolJunk,
      BobLongAgo, AliceShort, CarolDateOnly, BlankRow }

\* header layouts: the header line, the 0-based columns of the name and the
\* timestamp (-1: none), the order of a line's fields, and whether the
\* fields are written with a space on either side
LayoutNameTime ==
    [ header  |-> << "N", "a", "m", "e", ",", "T", "i", "m", "e", "s", "t",
                     "a", "m", "p" >>,
      nameCol |-> 0, timeCol |-> 1, fields |-> << "name", "time" >>,
      spaced  |-> FALSE ]

LayoutIdNameTime ==
    [ header  |-> << "I", "D", ",", "N", "a", "m", "e", ",", "T", "i", "m",
                     "e", "s", "t", "a", "m", "p" >>,
      nameCol |-> 1, timeCol |-> 2, fields |-> << "id", "name", "time" >>,
      spaced  |-> FALSE ]

LayoutIdTimeWorker ==
    [ header  |-> << "I", "D", ",", " ", "T", "i", "m", "e", "S", "t", "a",
                     "m", "p", " ", ",", "W", "o", "r", "k", "e", "r", " ",
                     "N", "a", "m", "e" >>,
      nameCol |-> 2, timeCol |-> 1, fields |-> << "id", "time", "name" >>,
      spaced  |-> TRUE ]

LayoutXY ==
    [ header  |-> << "X", ",", "Y" >>,
      nameCol |-> -1, timeCol |-> -1, fields |-> << "name", "time" >>,
      spaced  |-> FALSE ]

Layouts == { LayoutNameTime, LayoutIdNameTime, LayoutIdTimeWorker, LayoutXY }

\* the number of fields on the line of row r
fieldCount(layout, r) ==
    IF r.short THEN Len(layout.fields) - 1 ELSE Len(layout.fields)

fieldText(kind, r) ==
    IF kind = "name" THEN r.name
    ELSE IF kind = "time" THEN stampText(r.stamp)
    ELSE << "7" >>

fieldOnLine(layout, r, n) ==
    IF layout.spaced
    THEN << " " >> \o fieldText(layout.fields[n], r) \o << " " >>
    ELSE fieldText(layout.fields[n], r)

RECURSIVE joinFields(_, _, _)
joinFields(layout, r, n) ==
    IF n = 0 THEN <<>>
    ELSE IF n = 1 THEN fieldOnLine(layout, r, 1)
    ELSE joinFields(layout, r, n - 1) \o << "," >> \o fieldOnLine(layout, r, n)

RECURSIVE bodyText(_, _)
bodyText(layout, rows) ==
    IF rows = <<>>
    THEN <<>>
    ELSE (IF Head(rows).blank
          THEN << " " >>
          ELSE joinFields(layout, Head(rows), fieldCount(layout, Head(rows))))
             \o << "\n" >> \o bodyText(layout, Tail(rows))

\* the text of LoginInfo.csv
csvTextOf(doc) == doc.layout.header \o << "\n" >> \o bodyText(doc.layout, doc.rows)

\* every document of at most MaxRows data lines
AllDocs ==
    [ layout : Layouts,
      rows   : UNION { [1..k -> RowKinds] : k \in 0..MaxRows } ]

\* the documents the server holds during a run of the page
ServedDocs ==
    { [ layout |-> LayoutNameTime, rows |-> <<>> ],
      [ layout |-> LayoutNameTime, rows |-> << AliceToday >> ],
      [ layout |-> LayoutNameTime, rows |-> << AliceYesterday >> ],
      [ layout |-> LayoutNameTime, rows |-> << CarolJunk >> ],
      [ layout |-> LayoutNameTime, rows |-> << BobToday, AliceToday >> ],
      [ layout |-> LayoutXY, rows |-> << AliceToday >> ] }

NoDoc == [ layout |-> LayoutXY, rows |-> <<>> ]

(***************************************************************************)
(* State.                                                                  *)
(***************************************************************************)
VARIABLES
    tz,         \* getTimezoneOffset() of the browser, in minutes
    clock,      \* new Date() returns Instants[clock]
    timer,      \* TRUE once initApp has run and registered setInterval
    calls,      \* calls[id]: where the id-th call of fetchData stands:
                \* "fetch" (awaiting fetch), "text" (awaiting
                \* response.text()) or "done"
    display,    \* the elements of the page
    lastCycle,  \* history: the call of fetchData that finished last, the
                \* document it read, the clock then and how it ended
    input       \* the argument of a function applied on its own

vars == << tz, clock, timer, calls, display, lastCycle, input >>

NoCycle == [ seq |-> 0, id |-> 0, result |-> "none", doc |-> NoDoc, now |-> 1 ]

NoInput ==
    [ kind  |-> "none",
      doc   |-> NoDoc,
      count |-> 0,
      total |-> TOTAL_WORKERS_ESTIMATE ]

now == Instants[clock]

(***************************************************************************)
(* The page in the browser: initApp, the interval timer and the            *)
(* continuations of fetchData.                                             *)
(***************************************************************************)
Init ==
    /\ tz \in ZoneOffsets
    /\ clock = 1
    /\ timer = FALSE
    /\ calls = <<>>
    /\ display = InitialDisplay
    /\ lastCycle = NoCycle
    /\ input = NoInput

\* DOMContentLoaded: initApp runs updateDate, starts the first fetchData
\* and registers the interval
InitApp ==
    /\ ~timer
    /\ timer' = TRUE
    /\ display' = updateDate(display, now, tz)
    /\ calls' = Append(calls, "fetch")
    /\ UNCHANGED << tz, clock, lastCycle, input >>

\* the interval callback: updateDate, then fetchData up to its first await
Tick ==
    /\ timer
    /\ Len(calls) < MaxCalls
    /\ display' = updateDate(display, now, tz)
    /\ calls' = Append(calls, "fetch")
    /\ UNCHANGED << tz, clock, timer, lastCycle, input >>

\* time passes
ClockAdvance ==
    /\ clock < Len(Instants)
    /\ clock' = clock + 1
    /\ UNCHANGED << tz, timer, calls, display, lastCycle, input >>

finished(id, result, doc) ==
    [ seq |-> lastCycle.seq + 1, id |-> id, result |-> result, doc |-> doc,
      now |-> clock ]

\* fetch() resolves with response.ok
FetchResolveOk(id) ==
    /\ calls[id] = "fetch"
    /\ calls' = [calls EXCEPT ![id] = "text"]
    /\ UNCHANGED << tz, clock, timer, display, lastCycle, input >>

\* fetch() resolves with a response that is not ok: fetchData throws and
\* its catch block runs
FetchResolveNotOk(id) ==
    /\ calls[id] = "fetch"
    /\ calls' = [calls EXCEPT ![id] = "done"]
    /\ display' = catchHandler(display)
    /\ lastCycle' = finished(id, "failed", NoDoc)
    /\ UNCHANGED << tz, clock, timer, input >>

\* fetch() rejects (network error)
FetchReject(id) ==
    /\ calls[id] = "fetch"
    /\ calls' = [calls EXCEPT ![id] = "done"]
    /\ display' = catchHandler(display)
    /\ lastCycle' = finished(id, "failed", NoDoc)
    /\ UNCHANGED << tz, clock, timer, input >>

\* response.text() resolves with the text of doc: processCSV and the rest
\* of fetchData run to the end
TextResolve(id, doc) ==
    /\ calls[id] = "text"
    /\ calls' = [calls EXCEPT ![id] = "done"]
    /\ LET r == processCSV(display, csvTextOf(doc), now, tz)
       IN  /\ display' = afterProcessCSV(display, r)
           /\ lastCycle' = finished(id, r.result, doc)
    /\ UNCHANGED << tz, clock, timer, input >>

\* response.text() rejects (the body could not be read)
TextReject(id) ==
    /\ calls[id] = "text"
    /\ calls' = [calls EXCEPT ![id] = "done"]
    /\ display' = catchHandler(display)
    /\ lastCycle' = finished(id, "failed", NoDoc)
    /\ UNCHANGED << tz, clock, timer, input >>

Next ==
    \/ InitApp
    \/ Tick
    \/ ClockAdvance
    \/ \E id \in 1..Len(calls) : FetchResolveOk(id)
    \/ \E id \in 1..Len(calls) : FetchResolveNotOk(id)
    \/ \E id \in 1..Len(calls) : FetchReject(id)
    \/ \E id \in 1..Len(calls) : \E doc \in ServedDocs : TextResolve(id, doc)
    \/ \E id \in 1..Len(calls) : TextReject(id)

Spec == Init /\ [][Next]_vars

(***************************************************************************)
(* The page when every response arrives before the next tick of the        *)
(* interval: a call of fetchData starts only when the earlier ones have    *)
(* ended, so the cycles run one after the other.                           *)
(***************************************************************************)
TickAfterResponse ==
    /\ \A id \in 1..Len(calls) : calls[id] = "done"
    /\ Tick

NextSerial ==
    \/ InitApp
    \/ TickAfterResponse
    \/ ClockAdvance
    \/ \E id \in 1..Len(calls) : FetchResolveOk(id)
    \/ \E id \in 1..Len(calls) : FetchResolveNotOk(id)
    \/ \E id \in 1..Len(calls) : FetchReject(id)
    \/ \E id \in 1..Len(calls) : \E doc \in ServedDocs : TextResolve(id, doc)
    \/ \E id \in 1..Len(calls) : TextReject(id)

SpecSerial == Init /\ [][NextSerial]_vars

(***************************************************************************)
(* processCSV on its own: one cycle on a fresh page, for every document of *)
(* AllDocs, every instant and every zone.                                  *)
(***************************************************************************)
InitCSV ==
    /\ tz \in ZoneOffsets
    /\ clock \in 1..Len(Instants)
    /\ timer = FALSE
    /\ calls = <<>>
    /\ display = InitialDisplay
    /\ lastCycle = NoCycle
    /\ input \in [ kind  : {"csv"},
                   doc   : AllDocs,
                   count : {0},
                   total : {TOTAL_WORKERS_ESTIMATE} ]

ProcessDocument ==
    /\ input.kind = "csv"
    /\ LET r == processCSV(display, csvTextOf(input.doc), now, tz)
       IN  /\ display' = afterProcessCSV(display, r)
           /\ lastCycle' = finished(0, r.result, input.doc)
    /\ input' = [input EXCEPT !.kind = "processed"]
    /\ UNCHANGED << tz, clock, timer, calls >>

NextCSV == ProcessDocument

SpecCSV == InitCSV /\ [][NextCSV]_vars

(***************************************************************************)
(* updateDashboardStats on its own, for every count up to MaxCount under   *)
(* every TOTAL_WORKERS_ESTIMATE from 1 to MaxEstimate.                     *)
(***************************************************************************)
InitStats ==
    /\ tz = 0
    /\ clock = 1
    /\ timer = FALSE
    /\ calls = <<>>
    /\ display = InitialDisplay
    /\ lastCycle = NoCycle
    /\ input \in [ kind  : {"count"},
                   doc   : {NoDoc},
                   count : 0..MaxCount,
                   total : 1..MaxEstimate ]

ApplyUpdateDashboardStats ==
    /\ input.kind = "count"
    /\ display' = updateDashboardStats(display, input.total, input.count,
                                       NoneText, NoActivityText)
    /\ input' = [input EXCEPT !.kind = "counted"]
    /\ UNCHANGED << tz, clock, timer, calls, lastCycle >>

NextStats == ApplyUpdateDashboardStats

SpecStats == InitStats /\ [][NextStats]_vars

(***************************************************************************)
(* The vocabulary of the claims: what a document says, read off its        *)
(* structured form (not its text), and what the page shows.                *)
(***************************************************************************)
\* the header names a name column and a timestamp column
resolvable(doc) == doc.layout.nameCol # -1 /\ doc.layout.timeCol # -1

\* the line of row r has a field in 0-based column col
hasField(doc, r, col) ==
    ~r.blank /\ col >= 0 /\ col < fieldCount(doc.layout, r)

\* the indices of the valid rows: lines with a parseable timestamp
Events(doc) ==
    { i \in 1..Len(doc.rows) :
        /\ hasField(doc, doc.rows[i], doc.layout.timeCol)
        /\ doc.rows[i].stamp.valid }

\* the workerName of a row: the field in the name column, if it has one
workerNameOf(doc, r) ==
    IF hasField(doc, r, doc.layout.nameCol) THEN r.name ELSE Undefined

\* the time value of a row's timestamp: a date and time is local time in a
\* zone tzOffset minutes behind UTC, a date alone is midnight UTC
epochOf(st, tzOffset) ==
    timeValue(daysFromCivil(st.civil[1], st.civil[2], st.civil[3]),
              (st.civil[4] * 60 + st.civil[5]) * MsPerMinute
                  + st.civil[6] * 1000
                  + (IF st.dateOnly THEN 0 ELSE tzOffset * MsPerMinute))

\* the distinct worker names among the valid rows dated dateText
workersOn(doc, dateText) ==
    { workerNameOf(doc, doc.rows[i]) :
        i \in { j \in Events(doc) : stampDateText(doc.rows[j].stamp) = dateText } }

\* the local calendar date, YYYY-MM-DD, at instant t in a zone tzOffset
\* minutes behind UTC
localDateText(t, tzOffset) ==
    LET c == civilFromDays(timeValue(t[1], t[2] - tzOffset * MsPerMinute)[1])
    IN  pad4(c[1]) \o << "-" >> \o pad2(c[2]) \o << "-" >> \o pad2(c[3])

\* a row the parser is to discard: its timestamp does not parse, or its
\* line is shorter than the name or timestamp column requires
discardable(doc, r) ==
    /\ ~r.blank
    /\ \/ ~r.stamp.valid
       \/ ~hasField(doc, r, doc.layout.timeCol)
       \/ ~hasField(doc, r, doc.layout.nameCol)

\* doc without its i-th data line
withoutRow(doc, i) ==
    [doc EXCEPT !.rows = SubSeq(@, 1, i - 1) \o SubSeq(@, i + 1, Len(@))]

\* the document has a data line that is not blank
hasDataLine(doc) == \E i \in 1..Len(doc.rows) : ~doc.rows[i].blank

\* the empty-state element shows the waiting message
showsWaiting(d) == d.emptyDisplay = "block" /\ d.emptyContent = WaitingHTML

\* the statistics and the table, the output of a cycle
statsOf(d) ==
    << d.countToday, d.hygienePercent, d.hygieneClass, d.lastWorker,
       d.lastTime, d.tableBody >>

\* the step is the end of a call of fetchData
CycleEnds == lastCycle'.seq = lastCycle.seq + 1

(***************************************************************************)
(* Claims.                                                                 *)
(***************************************************************************)
\* the distinct worker names among the valid rows (a name field, a
\* timestamp field, a parseable timestamp) whose date part is dateText
namedWorkersOn(doc, dateText) ==
    { doc.rows[i].name :
        i \in { j \in Events(doc) :
                   /\ hasField(doc, doc.rows[j], doc.layout.nameCol)
                   /\ stampDateText(doc.rows[j].stamp) = dateText } }

\* C1: after processCSV has read a document with a resolvable header, the
\* todayCount on the page is the number of distinct workerName values among
\* the valid rows whose date part is string-equal to the today string of
\* the cycle (the ISO date of the cycle's instant); rows of other dates do
\* not count.
C1_TodayCountIsDistinctWorkers ==
    (lastCycle.result # "none" /\ resolvable(lastCycle.doc)) =>
        display.countToday =
            numberToString(Cardinality(
                namedWorkersOn(lastCycle.doc,
                               isoDate(Instants[lastCycle.now]))))

\* the first row, in document order, among those of maximal time value
latestEvent(doc, tzOffset) ==
    CHOOSE i \in Events(doc) :
        \A j \in Events(doc) :
            /\ ~greaterThan(epochOf(doc.rows[j].stamp, tzOffset),
                            epochOf(doc.rows[i].stamp, tzOffset))
            /\ j < i => greaterThan(epochOf(doc.rows[i].stamp, tzOffset),
                                    epochOf(doc.rows[j].stamp, tzOffset))

\* C2: whenever a document with at least one valid Event is rendered, the
\* lastWorker and lastTimestampRaw shown are those of the Event of maximal
\* epochMillis, the first such Event in the document on a tie, for every
\* value of epochMillis.
C2_LastIsLatestEvent ==
    (lastCycle.result = "rendered" /\ Events(lastCycle.doc) # {}) =>
        LET r == lastCycle.doc.rows[latestEvent(lastCycle.doc, tz)]
        IN  /\ display.lastWorker = textContent(workerNameOf(lastCycle.doc, r))
            /\ display.lastTime = stampText(r.stamp)

\* C3: a row with an unparseable timestamp or too few fields is discarded
\* without aborting: the page after the cycle is the page the cycle gives
\* for the document without that row, and no error or waiting state shows.
\* (Stated for documents that keep a data line when the row is removed, so
\* that both documents reach the row loop.)
C3_BadRowsAreDiscarded ==
    lastCycle.result # "none" =>
        \A i \in 1..Len(lastCycle.doc.rows) :
            ( /\ discardable(lastCycle.doc, lastCycle.doc.rows[i])
              /\ hasDataLine(withoutRow(lastCycle.doc, i)) ) =>
                /\ lastCycle.result # "threw"
                /\ ~showsWaiting(display)
                /\ display = afterText(InitialDisplay,
                                 csvTextOf(withoutRow(lastCycle.doc, i)),
                                 Instants[lastCycle.now], tz)

\* C4: a cycle that follows an earlier one and reads a document whose
\* header lacks a name or a timestamp column renders no statistics and no
\* table rows, and leaves the page exactly as it was or showing the waiting
\* state.
C4_SchemaErrorLeavesPage ==
    [][ ( /\ CycleEnds
          /\ lastCycle.seq > 0
          /\ lastCycle'.result \in {"returned", "rendered", "threw"}
          /\ ~resolvable(lastCycle'.doc) ) =>
            /\ statsOf(display') = statsOf(display)
            /\ display' = display \/ showsWaiting(display') ]_vars

\* the percentage the claim names: min(100, round(100 * count / total)),
\* round being the nearest integer of the exact quotient, halves upwards
nearestPercent(count, total) ==
    LET q == CHOOSE p \in 0..(100 * count + 1) :
                 /\ 2 * total * p <= 200 * count + total
                 /\ 200 * count + total < 2 * total * (p + 1)
    IN  IF q < 100 THEN q ELSE 100

\* C5: for every count and every positive totalEstimate the percent
\* updateDashboardStats shows is min(100, round(100 * count / totalEstimate)),
\* an integer of [0, 100].
C5_PercentIsClampedRound ==
    input.kind = "counted" =>
        /\ display.hygienePercent =
               numberToString(nearestPercent(input.count, input.total))
                   \o << "%" >>
        /\ \E p \in 0..100 :
               display.hygienePercent = numberToString(p) \o << "%" >>

\* C6: a fetched document with a resolvable header and no valid Event (the
\* header alone included) is rendered as todayCount 0, lastWorker "None"
\* and lastTimestampRaw "No activity yet", whatever an earlier cycle has
\* rendered.
C6_NoEventsRendersDefaults ==
    ( /\ lastCycle.result \in {"returned", "rendered"}
      /\ resolvable(lastCycle.doc)
      /\ Events(lastCycle.doc) = {}
      /\ display.hygieneClass # "" ) =>
        /\ display.countToday = << "0" >>
        /\ display.lastWorker = NoneText
        /\ display.lastTime = NoActivityText

\* C7: the today of a cycle is the local calendar date of the cycle's
\* instant: the todayCount rendered counts the workers of the rows dated
\* with the local date, and no row of another date, in every zone.
C7_TodayIsLocalDate ==
    lastCycle.result = "rendered" =>
        display.countToday =
            numberToString(Cardinality(
                workersOn(lastCycle.doc,
                          localDateText(Instants[lastCycle.now], tz))))

\* C8: when the fetch of a cycle fails, the page shows the waiting state,
\* the count, percentage, tier, last worker, last timestamp and table rows
\* stay as they were, and the interval timer stays registered, so that the
\* next tick starts a new fetch.
C8_FailedFetchShowsWaiting ==
    [][ (CycleEnds /\ lastCycle'.result = "failed") =>
            /\ showsWaiting(display')
            /\ statsOf(display') = statsOf(display)
            /\ timer' ]_vars

\* C8 witness: a fetch has failed after a cycle that rendered a table
C8_Witness ==
    /\ lastCycle.result = "failed"
    /\ display.tableBody # <<>>
    /\ showsWaiting(display)
    /\ timer

\* C9: cycles never overlap and finish in the order of their ticks: at most
\* one call of fetchData is under way, and once all have finished the page
\* is the one left by the call of the latest tick.
C9_CyclesNeverOverlap ==
    /\ Cardinality({ id \in 1..Len(calls) : calls[id] # "done" }) <= 1
    /\ (calls # <<>> /\ \A id \in 1..Len(calls) : calls[id] = "done") =>
           lastCycle.id = Len(calls)

\* C10: after a cycle that read a document with a resolvable header and a
\* data line but no Event dated today, the empty-state element is visible
\* with the message "No hand washing records found for today."; and after
\* a successful cycle the element is hidden only if the table has a row.
C10_EmptyStateAfterCycle ==
    /\ ( /\ lastCycle.result = "rendered"
         /\ resolvable(lastCycle.doc)
         /\ hasDataLine(lastCycle.doc)
         /\ workersOn(lastCycle.doc, isoDate(Instants[lastCycle.now])) = {} ) =>
           /\ display.emptyDisplay = "block"
           /\ display.emptyContent = NoRecordsText
    /\ (lastCycle.result = "rendered" /\ display.emptyDisplay = "none") =>
           display.tableBody # <<>>

====
